---- MODULE Spec2Model ----
(***************************************************************************)
(* Model of the PixEngine thumbnail pipeline (src-tauri/src).              *)
(*                                                                         *)
(* Part 1: the Fast Queue, ThumbnailQueueManager of thumbnail_queue.rs,    *)
(* driven by the commands of lib.rs.  The manager lives behind an outer    *)
(* Mutex (lib.rs), so commands run one at a time; the driver task spawned  *)
(* by start_worker and the decode tasks it spawns run concurrently with    *)
(* the commands.                                                           *)
(*                                                                         *)
(* Part 2: the thumbnail producer of thumbnail.rs, generate_thumbnail and  *)
(* generate_hq_thumbnail, called concurrently for one source file, and the *)
(* cache directory they share.                                             *)
(***************************************************************************)
EXTENDS Integers, Sequences, FiniteSets, TLC

\* ------------------------------------------------------------------ bounds
MaxLen == 2         \* longest path list handed to start_thumbnail_generation
MaxCalls == 2       \* start_thumbnail_generation, update_thumbnail_priorities and
                    \* pause_thumbnail_generation calls in one behaviour
MaxItems == 2       \* work items queued in one behaviour, over all calls
MaxCpus == 8        \* largest num_cpus::get() tried

Paths == {"a", "b"}
CpuCounts == {1, MaxCpus}

RECURSIVE SeqsUpTo(_)
SeqsUpTo(n) ==
  IF n = 0 THEN {<<>>}
  ELSE LET S == SeqsUpTo(n - 1)
       IN  S \cup {Append(s, p) : s \in {t \in S : Len(t) = n - 1}, p \in Paths}

PathLists == SeqsUpTo(MaxLen)
VisibleSets == SUBSET (0 .. MaxLen - 1)

\* ------------------------------------------------------------------ state
VARIABLES
  queue,          \* VecDeque<ThumbnailRequest>
  completed,      \* HashMap<String, ThumbnailResult>
  total,          \* usize
  paused,         \* bool
  is_processing,  \* bool
  num_cpus,       \* num_cpus::get() of the machine
  cmd,            \* command holding the outer manager mutex between awaits
  drivers,        \* driver tasks spawned by start_worker, in spawn order
  tasks,          \* decode tasks spawned by the drivers and not yet ended
  events,         \* events emitted since the last start_thumbnail_generation
  failed,         \* history: items whose decode failed since that call
  listing,        \* history: the path list of the last start_thumbnail_generation
  nInit,          \* history: start_thumbnail_generation calls so far
  nItems,         \* history: work items queued so far
  nCalls,         \* history: calls of the three bounded commands so far
  updV,           \* history: argument of the last update_priorities of this session
  pauseSnap,      \* history: items queued or held by a driver at the last pause()
  replaced,       \* history: what the last initialize found and cleared
  file,           \* the source file the producer is called for
  cache,          \* the cache directory: cache key -> contents of <key>.webp
  calls,          \* the generate_thumbnail / generate_hq_thumbnail calls made
  hq_cancelled,   \* HQ_GENERATION_CANCELLED
  passes,         \* the HQ passes spawned so far, in spawn order
  desktop,        \* the window system: build, window handle, foreground, idle time
  now,            \* time in idle-poll intervals
  watcher,        \* the FolderWatcher and the debouncers it has created
  changes,        \* the folder-change events emitted so far
  meta,           \* the file extract_exif_metadata is called for, and its result
  photo,          \* the file the rating commands are called for, and the last call
  locks           \* the locks of the queue manager and where each task is at them

vars == <<queue, completed, total, paused, is_processing, num_cpus, cmd,
          drivers, tasks, events, failed, listing, nInit, nItems, nCalls,
          updV, pauseSnap, replaced, file, cache, calls,
          hq_cancelled, passes, desktop, now, watcher, changes, meta, photo,
          locks>>

\* the state of the HQ worker and of what runs beside the thumbnail pipeline
hqState == <<hq_cancelled, passes, desktop, now>>
watchState == <<watcher, changes>>
sideState == <<meta, photo, locks>>
background == <<hqState, watchState, sideState>>

\* the state of the producer, which no step of the queue manager touches
producer == <<file, cache, calls>>

\* the history variables no task or driver step changes
history == <<listing, nInit, nItems, nCalls, updV, pauseSnap, replaced>>

NoReq == [path |-> "", priority |-> 0, index |-> 0]
NoUpdate == {-1}
EmptyMap == [p \in {} |-> ""]

\* ---------------------------------------------------------------- helpers
Max(a, b) == IF a >= b THEN a ELSE b

\* (num_cpus::get() / 4).max(1)
max_workers == Max(num_cpus \div 4, 1)

\* Vec::sort_by_key(|r| r.priority): stable, ascending.
RECURSIVE InsertByPriority(_, _)
InsertByPriority(s, r) ==
  IF s = <<>> THEN <<r>>
  ELSE IF r.priority < Head(s).priority THEN <<r>> \o s
       ELSE <<Head(s)>> \o InsertByPriority(Tail(s), r)

\* variant of SortByPriority: the sort is left out
SortByPriorityNone(s) == s

RECURSIVE SortByPriority(_)
SortByPriority(s) ==
  IF s = <<>> THEN <<>>
  ELSE InsertByPriority(SortByPriority(SubSeq(s, 1, Len(s) - 1)), s[Len(s)])

\* variant of NewPriority: the negation of the visible priority is left out
NewPriorityNoNeg(r, visible) ==
  IF r.index \in visible THEN r.index + 1000 ELSE r.index

\* the priority update_priorities gives to one request
NewPriority(r, visible) ==
  IF r.index \in visible THEN -(r.index + 1000) ELSE r.index

\* variant of Reprioritized: the index of a visible item is set as well
ReprioritizedWithIndex(q, visible) ==
  [i \in 1 .. Len(q) |->
     [q[i] EXCEPT !.priority = NewPriority(q[i], visible),
                  !.index = IF q[i].index \in visible THEN 0 ELSE @]]

\* the loop of update_priorities over the drained requests (96-104)
Reprioritized(q, visible) ==
  [i \in 1 .. Len(q) |-> [q[i] EXCEPT !.priority = NewPriority(q[i], visible)]]

\* decode tasks of driver d that hold one of its permits
Running(d) == {t \in tasks : t.driver = d}

\* variant of Permits: the semaphore is created with one permit too many
PermitsOneMore(d) == max_workers + 1 - Cardinality(Running(d))

\* permits left in the semaphore of driver d
Permits(d) == max_workers - Cardinality(Running(d))

\* history label of a work item: its path, its index and the call that queued it
Item(r, s) == [path |-> r.path, index |-> r.index, sess |-> s]

Event(type, path, c, t) == [type |-> type, path |-> path, completed |-> c, total |-> t]

\* ------------------------------------------- bounds of the producer
MaxOps == 3         \* producer calls and modifications of the source file in
                    \* one behaviour
TicksPerSec == 2    \* distinct modification times the file system keeps per second

\* the literals of thumbnail.rs
max_size == 320     \* generate_*_thumbnail(file_path, 320)
quality == 60       \* encode_thumbnail_to_webp(.., 60.0)

\* ------------------------------------------------------------ source files
\* A source file: its path (stem and extension), what its bytes are, the state
\* of the EXIF thumbnail of a JPEG, the size of the image, the size of the JPEG
\* embedded in the THUMBNAIL IFD, and its modification time in ticks.
SourceFile(ext, content, exif, w, h, tw, th) ==
  [path |-> [stem |-> "p", ext |-> ext], content |-> content, exif |-> exif,
   w |-> w, h |-> h, tw |-> tw, th |-> th, ticks |-> 0]

NoFile == SourceFile("", "none", "none", 1, 1, 1, 1)

Files ==
  { SourceFile("jpg",  "jpeg", "no_app1",       4000, 3000, 1, 1),
    SourceFile("jpg",  "jpeg", "valid",         4000, 3000, 160, 120),
    SourceFile("jpeg", "jpeg", "corrupt",       640, 480, 160, 120),
    SourceFile("Jpeg", "jpeg", "bad_signature", 200, 100, 1, 1),
    SourceFile("jpg",  "jpeg", "no_thumb",      2560, 1920, 1, 1),
    SourceFile("JPG",  "png",  "none",          1000, 500, 1, 1),
    SourceFile("png",  "png",  "none",          1000, 500, 1, 1),
    SourceFile("SVG",  "svg",  "none",          640, 480, 1, 1),
    SourceFile("Cr2",  "raw",  "none",          6000, 4000, 640, 480),
    SourceFile("",     "png",  "none",          100, 50, 1, 1) }

NoCache == [k \in {} |-> 0]

\* the window system as the application finds it after setup on Windows: the
\* handle of the main window is registered (lib.rs 1121-1127), the window is
\* in the foreground and the user has just made an input
Desktop(build, handle, foreground, idle) ==
  [build |-> build, handle |-> handle, foreground |-> foreground, idle |-> idle]

\* FolderWatcher::new() (folder_watcher.rs 50-55): no debouncer, no path
\* seen, handled and last are history: the events the backend has reported,
\* the (kind, path) pairs the callbacks have been through and how the last
\* call of watch_folder or stop_watching returned
NoWatcher ==
  [debouncer |-> 0, current_path |-> "", threads |-> <<>>, seen |-> 0, handled |-> <<>>,
   last |-> "none"]

WatchIdle ==
  /\ watcher = NoWatcher
  /\ changes = <<>>

\* the command in progress (the commands are serialised by the mutex around
\* the manager, lib.rs 491-540), the driver task and the decode tasks
Cmd == "cmd"
Driver == "driver"
DecodeTasks == {"t1", "t2"}
Procs == {Cmd, Driver} \cup DecodeTasks

\* queue is the tokio Mutex, the others are tokio RwLocks (41-49)
LockNames == {"queue", "total", "completed", "paused", "is_processing"}

\* where a process is: at names the statement, st says whether it is about
\* to ask for the lock of the statement (ask), queued for it (wait), holds it
\* (held), or is at a statement without a lock (run); a process that does not
\* exist is at "none"
At(at, st) == [at |-> at, st |-> st]
Nowhere == At("none", "run")

\* ThumbnailQueueManager::new (55-64) at the level of its locks: no lock is
\* held or asked for; items is the length of the queue; calls counts the
\* commands called so far and the paths handed to them, arg is the length of
\* the list of the initialize call in progress
NoLocks ==
  [pc |-> [pr \in Procs |-> Nowhere],
   held |-> [l \in LockNames |-> {}],
   wait |-> [l \in LockNames |-> <<>>],
   items |-> 0, paused |-> FALSE, processing |-> FALSE, calls |-> 0, arg |-> 0]

\* no file has been chosen for extract_exif_metadata
NoMeta ==
  [pc |-> "none", readable |-> FALSE, tag |-> "none", value |-> 0, thumb |-> 0,
   some |-> FALSE, orientation |-> 0]

\* no file has been chosen for the rating commands
NoPhoto ==
  [pc |-> "none", exists |-> FALSE, xmp |-> -1, taken |-> "none", mtime |-> "original",
   call |-> "none", rating |-> 0, result |-> "none", opened |-> FALSE]

SideIdle ==
  /\ meta = NoMeta
  /\ photo = NoPhoto
  /\ locks = NoLocks

\* the builds of the application: for Windows with the window handle
\* registered or not (setup, lib.rs 1121-1127), and for another system
Builds ==
  {Desktop("windows", TRUE, "app", 0), Desktop("windows", FALSE, "app", 0),
   Desktop("other", FALSE, "app", 0)}

\* no HQ pass has been started
HqIdle ==
  /\ hq_cancelled = FALSE
  /\ passes = <<>>
  /\ desktop = Desktop("windows", TRUE, "app", 0)
  /\ now = 0

\* ------------------------------------------------------------------- Init
Init ==
  /\ queue = <<>>
  /\ completed = EmptyMap
  /\ total = 0
  /\ paused = FALSE
  /\ is_processing = FALSE
  /\ num_cpus \in CpuCounts
  /\ cmd = "none"
  /\ drivers = <<>>
  /\ tasks = {}
  /\ events = <<>>
  /\ failed = {}
  /\ listing = <<>>
  /\ nInit = 0
  /\ nItems = 0
  /\ nCalls = 0
  /\ updV = NoUpdate
  /\ pauseSnap = {}
  /\ replaced = [queued |-> 0, done |-> 0]
  /\ file = NoFile
  /\ cache = NoCache
  /\ calls = <<>>
  /\ HqIdle
  /\ WatchIdle
  /\ SideIdle

\* ------------------------------------------------ commands (lib.rs 491-531)
\* variant of Initialize: the completion map is not cleared
InitializeKeepsMap(image_paths) ==
  /\ cmd = "none"
  /\ nCalls < MaxCalls
  /\ nItems + Len(image_paths) <= MaxItems
  /\ queue' = [i \in 1 .. Len(image_paths) |->
                 [path |-> image_paths[i], priority |-> i - 1, index |-> i - 1]]
  /\ completed' = completed
  /\ total' = Len(image_paths)
  /\ cmd' = "start_worker"
  /\ nInit' = nInit + 1
  /\ nCalls' = nCalls + 1
  /\ nItems' = nItems + Len(image_paths)
  /\ updV' = NoUpdate
  /\ events' = <<>>
  /\ failed' = {}
  /\ listing' = image_paths
  /\ replaced' = [queued |-> Len(queue), done |-> Cardinality(DOMAIN completed)]
  /\ UNCHANGED <<paused, is_processing, num_cpus, drivers, tasks, pauseSnap,
                 producer, background>>

\* start_thumbnail_generation, first half: queue.initialize(image_paths).
\* initialize takes the queue mutex and the total and completed write guards
\* and changes the three only while it holds them all, so it is one step for
\* the driver and the decode tasks.  `index as i32` keeps the value: a folder
\* listing stays below 2^31 entries.
Initialize(image_paths) ==
  /\ cmd = "none"
  /\ nCalls < MaxCalls
  /\ nItems + Len(image_paths) <= MaxItems
  /\ queue' = [i \in 1 .. Len(image_paths) |->
                 [path |-> image_paths[i], priority |-> i - 1, index |-> i - 1]]
  /\ completed' = EmptyMap
  /\ total' = Len(image_paths)
  /\ cmd' = "start_worker"
  /\ nInit' = nInit + 1
  /\ nCalls' = nCalls + 1
  /\ nItems' = nItems + Len(image_paths)
  /\ updV' = NoUpdate
  /\ events' = <<>>
  /\ failed' = {}
  /\ listing' = image_paths
  /\ replaced' = [queued |-> Len(queue), done |-> Cardinality(DOMAIN completed)]
  /\ UNCHANGED <<paused, is_processing, num_cpus, drivers, tasks, pauseSnap,
                 producer, background>>

\* variant of StartWorker: the is_processing test is left out
StartWorkerAlways ==
  /\ cmd = "start_worker"
  /\ cmd' = "none"
  /\ is_processing' = TRUE
  /\ drivers' = Append(drivers, [pc |-> "check_pause", req |-> NoReq,
                                 reqSess |-> 0, reqPost |-> FALSE])
  /\ UNCHANGED <<queue, completed, total, paused, num_cpus, tasks, events, failed,
                 history,
                 producer, background>>

\* start_thumbnail_generation, second half: queue.start_worker()
StartWorker ==
  /\ cmd = "start_worker"
  /\ cmd' = "none"
  /\ IF is_processing
       THEN UNCHANGED <<is_processing, drivers>>
       ELSE /\ is_processing' = TRUE
            /\ drivers' = Append(drivers, [pc |-> "check_pause", req |-> NoReq,
                                           reqSess |-> 0, reqPost |-> FALSE])
  /\ UNCHANGED <<queue, completed, total, paused, num_cpus, tasks, events, failed,
                 history,
                 producer, background>>

\* update_thumbnail_priorities -> ThumbnailQueueManager::update_priorities
UpdatePriorities(visible_indices) ==
  /\ cmd = "none"
  /\ nCalls < MaxCalls
  /\ queue' = SortByPriority(Reprioritized(queue, visible_indices))
  /\ nCalls' = nCalls + 1
  /\ updV' = visible_indices
  /\ drivers' = [d \in 1 .. Len(drivers) |-> [drivers[d] EXCEPT !.reqPost = FALSE]]
  /\ tasks' = {[t EXCEPT !.post = FALSE] : t \in tasks}
  /\ UNCHANGED <<completed, total, paused, is_processing, num_cpus, cmd, events,
                 failed, listing, nInit, nItems, pauseSnap, replaced,
                 producer, background>>

\* the items that are queued or popped and not yet handed to a decode task
Waiting ==
  {Item(queue[i], nInit) : i \in 1 .. Len(queue)}
  \cup {Item(drivers[d].req, drivers[d].reqSess) :
          d \in {e \in 1 .. Len(drivers) : drivers[e].pc = "acquire"}}

\* pause_thumbnail_generation -> ThumbnailQueueManager::pause
Pause ==
  /\ cmd = "none"
  /\ nCalls < MaxCalls
  /\ paused' = TRUE
  /\ nCalls' = nCalls + 1
  /\ pauseSnap' = Waiting
  /\ UNCHANGED <<queue, completed, total, is_processing, num_cpus, cmd, drivers,
                 tasks, events, failed, listing, nInit, nItems, updV, replaced,
                 producer, background>>

\* resume_thumbnail_generation -> ThumbnailQueueManager::resume
\* (resuming a queue that is not paused changes nothing)
Resume ==
  /\ cmd = "none"
  /\ paused
  /\ paused' = FALSE
  /\ pauseSnap' = {}
  /\ UNCHANGED <<queue, completed, total, is_processing, num_cpus, cmd, drivers,
                 tasks, events, failed, listing, nInit, nItems, nCalls, updV, replaced,
                 producer, background>>

\* ------------------------------- the driver task (start_worker, 172-253)
\* loop head: if *paused.read().await { sleep(100ms); continue; }
DriverCheckPause(d) ==
  /\ drivers[d].pc = "check_pause"
  /\ drivers' = [drivers EXCEPT ![d].pc = IF paused THEN "sleep" ELSE "pop"]
  /\ UNCHANGED <<queue, completed, total, paused, is_processing, num_cpus, cmd,
                 tasks, events, failed, history,
                 producer, background>>

\* the 100 ms sleep ends; continue
DriverWake(d) ==
  /\ drivers[d].pc = "sleep"
  /\ drivers' = [drivers EXCEPT ![d].pc = "check_pause"]
  /\ UNCHANGED <<queue, completed, total, paused, is_processing, num_cpus, cmd,
                 tasks, events, failed, history,
                 producer, background>>

\* let request = { queue.lock().await.pop_front() }; None => break
DriverPop(d) ==
  /\ drivers[d].pc = "pop"
  /\ IF queue # <<>>
       THEN /\ queue' = Tail(queue)
            /\ drivers' = [drivers EXCEPT ![d] =
                 [pc |-> "acquire", req |-> Head(queue), reqSess |-> nInit,
                  reqPost |-> (updV # NoUpdate)]]
       ELSE /\ queue' = queue
            /\ drivers' = [drivers EXCEPT ![d].pc = "join"]
  /\ UNCHANGED <<completed, total, paused, is_processing, num_cpus, cmd,
                 tasks, events, failed, history,
                 producer, background>>

\* semaphore.acquire_owned().await; tokio::spawn(decode task); handles.push
DriverSpawn(d) ==
  /\ drivers[d].pc = "acquire"
  /\ Permits(d) > 0
  /\ tasks' = tasks \cup
       {[pc |-> "decode", path |-> drivers[d].req.path,
         index |-> drivers[d].req.index, driver |-> d, count |-> 0,
         sess |-> drivers[d].reqSess, post |-> drivers[d].reqPost,
         snap |-> paused /\ Item(drivers[d].req, drivers[d].reqSess) \in pauseSnap]}
  /\ drivers' = [drivers EXCEPT ![d] =
       [pc |-> "check_pause", req |-> NoReq, reqSess |-> 0, reqPost |-> FALSE]]
  /\ UNCHANGED <<queue, completed, total, paused, is_processing, num_cpus, cmd,
                 events, failed, history,
                 producer, background>>

\* variant of DriverJoin: the handles are not awaited
DriverJoinNoWait(d) ==
  /\ drivers[d].pc = "join"
  /\ drivers' = [drivers EXCEPT ![d].pc = "clear"]
  /\ UNCHANGED <<queue, completed, total, paused, is_processing, num_cpus, cmd,
                 tasks, events, failed, history,
                 producer, background>>

\* for handle in handles { handle.await }
DriverJoin(d) ==
  /\ drivers[d].pc = "join"
  /\ Running(d) = {}
  /\ drivers' = [drivers EXCEPT ![d].pc = "clear"]
  /\ UNCHANGED <<queue, completed, total, paused, is_processing, num_cpus, cmd,
                 tasks, events, failed, history,
                 producer, background>>

\* *is_processing.write().await = false
DriverClear(d) ==
  /\ drivers[d].pc = "clear"
  /\ is_processing' = FALSE
  /\ drivers' = [drivers EXCEPT ![d].pc = "emit"]
  /\ UNCHANGED <<queue, completed, total, paused, num_cpus, cmd,
                 tasks, events, failed, history,
                 producer, background>>

\* app_handle.emit("thumbnail-all-completed", true); the driver task ends
DriverEmit(d) ==
  /\ drivers[d].pc = "emit"
  /\ events' = Append(events, Event("all_completed", "", 0, 0))
  /\ drivers' = [drivers EXCEPT ![d].pc = "done"]
  /\ UNCHANGED <<queue, completed, total, paused, is_processing, num_cpus, cmd,
                 tasks, failed, history,
                 producer, background>>

\* ----------------------------------- a decode task (start_worker, 199-232)
MapInsert(m, k, v) == [p \in DOMAIN m \cup {k} |-> IF p = k THEN v ELSE m[p]]

\* generate_thumbnail returned Ok(result): comp.insert(req.path, result).
\* The decode itself touches no state of the queue manager, so its end and the
\* insert under the write guard are one step.
TaskDecodeOk(t) ==
  /\ t.pc = "decode"
  /\ completed' = MapInsert(completed, t.path, t.path)
  /\ tasks' = (tasks \ {t}) \cup {[t EXCEPT !.pc = "count"]}
  /\ UNCHANGED <<queue, total, paused, is_processing, num_cpus, cmd,
                 drivers, events, failed, history,
                 producer, background>>

\* variant of TaskDecodeErr: the failed task keeps its permit and never ends
TaskDecodeErrStuck(t) ==
  /\ t.pc = "decode"
  /\ tasks' = (tasks \ {t}) \cup {[t EXCEPT !.pc = "failed"]}
  /\ failed' = failed \cup {Item(t, t.sess)}
  /\ UNCHANGED <<queue, completed, total, paused, is_processing, num_cpus, cmd,
                 drivers, events, history,
                 producer, background>>

\* generate_thumbnail returned Err(e): eprintln!, drop(permit), the task ends
TaskDecodeErr(t) ==
  /\ t.pc = "decode"
  /\ tasks' = tasks \ {t}
  /\ failed' = failed \cup {Item(t, t.sess)}
  /\ UNCHANGED <<queue, completed, total, paused, is_processing, num_cpus, cmd,
                 drivers, events, history,
                 producer, background>>

\* let completed_count = completed.read().await.len()
TaskCount(t) ==
  /\ t.pc = "count"
  /\ tasks' = (tasks \ {t}) \cup
       {[t EXCEPT !.pc = "total", !.count = Cardinality(DOMAIN completed)]}
  /\ UNCHANGED <<queue, completed, total, paused, is_processing, num_cpus, cmd,
                 drivers, events, failed, history,
                 producer, background>>

\* let total_count = *total.read().await; emit progress, emit completed;
\* drop(permit), the task ends
TaskEmit(t) ==
  /\ t.pc = "total"
  /\ events' = events \o <<Event("progress", t.path, t.count, total),
                           Event("completed", t.path, 0, 0)>>
  /\ tasks' = tasks \ {t}
  /\ UNCHANGED <<queue, completed, total, paused, is_processing, num_cpus, cmd,
                 drivers, failed, history,
                 producer, background>>

\* ------------------------------------------------------------------- Next
Next ==
  \/ \E image_paths \in PathLists : Initialize(image_paths)
  \/ StartWorker
  \/ \E visible_indices \in VisibleSets : UpdatePriorities(visible_indices)
  \/ Pause
  \/ Resume
  \/ \E d \in 1 .. Len(drivers) :
       \/ DriverCheckPause(d)
       \/ DriverWake(d)
       \/ DriverPop(d)
       \/ DriverSpawn(d)
       \/ DriverJoin(d)
       \/ DriverClear(d)
       \/ DriverEmit(d)
  \/ \E t \in tasks :
       \/ TaskDecodeOk(t)
       \/ TaskDecodeErr(t)
       \/ TaskCount(t)
       \/ TaskEmit(t)

Spec == Init /\ [][Next]_vars

\* One folder session: start_thumbnail_generation is called once.  Every task
\* the runtime has spawned is scheduled again (weak fairness of the driver and
\* decode steps and of the command in progress), and a paused queue is resumed.
DriverStep ==
  \E d \in 1 .. Len(drivers) :
    \/ DriverCheckPause(d)
    \/ DriverWake(d)
    \/ DriverPop(d)
    \/ DriverSpawn(d)
    \/ DriverJoin(d)
    \/ DriverClear(d)
    \/ DriverEmit(d)

TaskStep ==
  \E t \in tasks :
    \/ TaskDecodeOk(t)
    \/ TaskDecodeErr(t)
    \/ TaskCount(t)
    \/ TaskEmit(t)

FirstInitialize(image_paths) == nInit = 0 /\ Initialize(image_paths)

SessionNext ==
  \/ \E image_paths \in PathLists : FirstInitialize(image_paths)
  \/ StartWorker
  \/ \E visible_indices \in VisibleSets : UpdatePriorities(visible_indices)
  \/ Pause
  \/ Resume
  \/ DriverStep
  \/ TaskStep

SessionSpec ==
  /\ Init
  /\ [][SessionNext]_vars
  /\ WF_vars(StartWorker)
  /\ WF_vars(Resume)
  /\ WF_vars(DriverStep)
  /\ WF_vars(TaskStep)

\* Any number of folder sessions on a machine with one decode worker
UpdateInit == Init /\ num_cpus = 1

UpdateSpec == UpdateInit /\ [][Next]_vars

\* Any number of folder sessions, with the scheduling of SessionSpec: every
\* spawned task is scheduled again, the command in progress goes on, and a
\* paused queue is resumed.
LiveSpec ==
  /\ Init
  /\ [][Next]_vars
  /\ WF_vars(StartWorker)
  /\ WF_vars(Resume)
  /\ WF_vars(DriverStep)
  /\ WF_vars(TaskStep)

\* ======================================================= the producer
\* ----------------------------------------------------- pure functions
\* str::to_lowercase on the extensions that occur
to_lowercase(ext) ==
  CASE ext = "JPG"  -> "jpg"
    [] ext = "Jpeg" -> "jpeg"
    [] ext = "SVG"  -> "svg"
    [] ext = "Cr2"  -> "cr2"
    [] OTHER        -> ext

RAW_EXTENSIONS ==
  {"nef", "nrw", "cr2", "crw", "arw", "srf", "sr2", "dng", "raf", "orf", "rw2", "pef"}

\* variant of is_jpeg_file: the extension is compared as it is written
is_jpeg_file_cased(path) == path.ext # "" /\ path.ext \in {"jpg", "jpeg"}

\* Path::extension() is None for a path without extension (ext = "")
is_jpeg_file(path) == path.ext # "" /\ to_lowercase(path.ext) \in {"jpg", "jpeg"}
is_svg_file(path) == path.ext # "" /\ to_lowercase(path.ext) = "svg"
is_raw_file(path) == path.ext # "" /\ to_lowercase(path.ext) \in RAW_EXTENSIONS

\* get_file_mtime: the modification time in whole seconds (.as_secs())
get_file_mtime(f) == f.ticks \div TicksPerSec

\* generate_cache_key: BLAKE3 of "{path}:{mtime}"; the digest stands for the
\* pair it was computed from
generate_cache_key(path, mtime) == [path |-> path, mtime |-> mtime]

\* extract_exif_thumbnail returns Ok(bytes): the file starts with FF D8, an
\* APP1 segment is found before a bad marker or the end of the file, the
\* THUMBNAIL IFD has JPEGInterchangeFormat and -Length, and the bytes they
\* point to start with FF D8
extract_exif_thumbnail_ok(f) ==
  /\ f.content = "jpeg"
  /\ f.exif \notin {"no_app1", "bad_marker", "no_thumb", "bad_signature"}

\* image::load_from_memory(&exif_thumb) succeeds
exif_thumbnail_decodes(f) == f.exif = "valid"

\* jpeg_decoder chooses the smallest of the factors 1/8, 2/8, 4/8, 8/8 whose
\* output is at least the requested size in one axis
scaled(len, s) == ((len * s - 1) \div 8) + 1

choose_idct_size(w, h, rw, rh) ==
  IF scaled(w, 1) >= rw \/ scaled(h, 1) >= rh THEN 1
  ELSE IF scaled(w, 2) >= rw \/ scaled(h, 2) >= rh THEN 2
  ELSE IF scaled(w, 4) >= rw \/ scaled(h, 4) >= rh THEN 4
  ELSE 8

\* generate_dct_thumbnail: decoder.scale(max_size, max_size), decode, info
generate_dct_thumbnail(f, max) ==
  LET s == choose_idct_size(f.w, f.h, max, max)
  IN  [ok |-> f.content = "jpeg", w |-> scaled(f.w, s), h |-> scaled(f.h, s)]

\* DynamicImage::thumbnail(max, max): the largest size of the same aspect
\* ratio that fits, each side rounded and at least 1
thumbnail_size(w, h, max) ==
  IF w >= h
    THEN [w |-> max, h |-> Max((2 * h * max + w) \div (2 * w), 1)]
    ELSE [w |-> Max((2 * w * max + h) \div (2 * h), 1), h |-> max]

\* generate_generic_thumbnail: image::open takes the format from the extension
generate_generic_thumbnail(f, max) ==
  LET t == thumbnail_size(f.w, f.h, max)
  IN  [ok |-> f.content = "png" /\ to_lowercase(f.path.ext) = "png",
       w |-> t.w, h |-> t.h]

\* generate_svg_thumbnail: scale = min(max / max(w, h), 1.0), sides at least 1
generate_svg_thumbnail(f, max) ==
  LET m == Max(f.w, f.h)
  IN  [ok |-> f.content = "svg",
       w |-> IF m <= max THEN f.w ELSE Max((f.w * max) \div m, 1),
       h |-> IF m <= max THEN f.h ELSE Max((f.h * max) \div m, 1)]

\* generate_raw_thumbnail: the JPEG of the THUMBNAIL IFD, made smaller only
\* when one of its sides exceeds max
generate_raw_thumbnail(f, max) ==
  LET t == thumbnail_size(f.tw, f.th, max)
  IN  [ok |-> f.content = "raw",
       w |-> IF f.tw <= max /\ f.th <= max THEN f.tw ELSE t.w,
       h |-> IF f.tw <= max /\ f.th <= max THEN f.th ELSE t.h]

\* the decode path generate_thumbnail takes (654-667)
decode_path(path) ==
  IF is_jpeg_file(path) THEN "dct"
  ELSE IF is_svg_file(path) THEN "svg"
  ELSE IF is_raw_file(path) THEN "raw"
  ELSE "generic"

decode_by(name, f) ==
  CASE name = "dct" -> generate_dct_thumbnail(f, max_size)
    [] name = "svg" -> generate_svg_thumbnail(f, max_size)
    [] name = "raw" -> generate_raw_thumbnail(f, max_size)
    [] OTHER        -> generate_generic_thumbnail(f, max_size)

\* the bytes of an image file: what it is and the size its header carries
Bytes(fmt, w, h, q) == [fmt |-> fmt, w |-> w, h |-> h, q |-> q]
NoBytes == Bytes("none", 0, 0, 0)

\* encode_thumbnail_to_webp: the same pixels, size and quality give the same bytes
encode_thumbnail_to_webp(w, h, q) == Bytes("webp", w, h, q)

\* A cache file: its bytes (NoBytes while it is created or truncated and not
\* yet written) and, as history, the modification time its writer had read.
Entry(data, under) == [data |-> data, under |-> under]

\* extract_webp_dimensions(..).unwrap_or((320, 320)): fewer than 30 bytes, or
\* no RIFF/WEBP header, gives None
extract_webp_dimensions(data) ==
  IF data.fmt # "webp" THEN [w |-> 320, h |-> 320] ELSE [w |-> data.w, h |-> data.h]

\* ThumbnailResult, or the Err the call returned; from is history: where the
\* bytes of the result were taken from
NoResult == [ok |-> FALSE, source |-> "", w |-> 0, h |-> 0, data |-> NoBytes,
             err |-> "", from |-> ""]
Ok(source, w, h, data) ==
  [ok |-> TRUE, source |-> source, w |-> w, h |-> h, data |-> data, err |-> "",
   from |-> ""]
From(r, origin) == [r EXCEPT !.from = origin]
Err(e) == [NoResult EXCEPT !.err = e]

Done == {i \in 1 .. Len(calls) : calls[i].pc = "done"}

\* a call that has just been made; ticks, after, under and path are history
NewCall(kind) ==
  [kind |-> kind, pc |-> "lookup", mtime |-> 0, w |-> 0, h |-> 0, res |-> NoResult,
   ticks |-> file.ticks, after |-> Done, under |-> 0, path |-> "none"]

queueState == <<queue, completed, total, paused, is_processing, num_cpus, cmd,
                drivers, tasks, events, failed, history>>

\* what no step of the HQ worker touches
besideHq == <<queueState, file, calls, watchState, sideState>>

\* what no step of the folder watcher touches
besideWatch == <<queueState, producer, hqState, sideState>>

\* what no step of the metadata and rating commands touches
pipeline == <<queueState, producer, hqState, watchState>>

\* --------------------------------------------- generate_thumbnail (607-686)
\* the call is made; step 1, the EXIF thumbnail of a JPEG (611-628)
StartFast ==
  /\ Len(calls) + file.ticks < MaxOps
  /\ calls' = Append(calls,
       IF is_jpeg_file(file.path) /\ extract_exif_thumbnail_ok(file)
         THEN IF exif_thumbnail_decodes(file)
                THEN [NewCall("fast") EXCEPT
                        !.pc = "done",
                        !.res = From(Ok("exif_embedded", file.tw, file.th,
                                        Bytes("jpeg", file.tw, file.th, 0)),
                                     "exif_segment")]
                ELSE [NewCall("fast") EXCEPT !.pc = "done", !.res = Err("exif")]
         ELSE NewCall("fast"))
  /\ UNCHANGED <<file, cache, queueState, background>>

\* ------------------------------------------ generate_hq_thumbnail (741-790)
StartHq ==
  /\ Len(calls) + file.ticks < MaxOps
  /\ calls' = Append(calls, NewCall("hq"))
  /\ UNCHANGED <<file, cache, queueState, background>>

Key(c) == generate_cache_key(file.path, c.mtime)

\* the decode of the source file: by extension in generate_thumbnail (655-667),
\* always the JPEG decoder in generate_hq_thumbnail (771)
DecodePathOf(c) == IF c.kind = "fast" THEN decode_path(file.path) ELSE "dct"

\* variant of WebpOf: generate_hq_thumbnail encodes at a higher quality
WebpOfByTier(c) ==
  encode_thumbnail_to_webp(c.w, c.h, IF c.kind = "hq" THEN quality + 20 ELSE quality)

\* encode_thumbnail_to_webp(&rgb_data, width, height, 60.0) (670, 774)
WebpOf(c) == encode_thumbnail_to_webp(c.w, c.h, quality)

\* get_file_mtime, generate_cache_key, get_cache_path, cache_path.exists()
\* (631-635, 742-747); when the cache file is not there, the decode and the
\* WebP encoding (655-670, 771-774), which read the source file only: a failed
\* decode returns its Err
Lookup(i) ==
  /\ calls[i].pc = "lookup"
  /\ LET mtime == get_file_mtime(file)
         name == DecodePathOf(calls[i])
         rgb == decode_by(name, file)
         c == [calls[i] EXCEPT !.mtime = mtime, !.ticks = file.ticks]
     IN  calls' = [calls EXCEPT ![i] =
           IF generate_cache_key(file.path, mtime) \in DOMAIN cache
             THEN [c EXCEPT !.pc = "read"]
             ELSE IF rgb.ok
                    THEN [c EXCEPT !.pc = "create", !.path = name,
                                   !.w = rgb.w, !.h = rgb.h]
                    ELSE [c EXCEPT !.pc = "done", !.path = name,
                                   !.res = Err("decode")]]
  /\ UNCHANGED <<file, cache, queueState, background>>

\* fs::read(&cache_path), extract_webp_dimensions, return source = Cache
\* (636-651, 748-764): the bytes are returned as they are found
\* variant of Read: the bytes of the cache file are returned as a fresh decode
ReadAsFresh(i) ==
  /\ calls[i].pc = "read"
  /\ LET e == cache[Key(calls[i])]
         dim == extract_webp_dimensions(e.data)
     IN  calls' = [calls EXCEPT ![i] =
           [@ EXCEPT !.pc = "done", !.under = e.under,
                     !.res = From(Ok("dct_scaling", dim.w, dim.h, e.data),
                                  "cache_file")]]
  /\ UNCHANGED <<file, cache, queueState, background>>

Read(i) ==
  /\ calls[i].pc = "read"
  /\ LET e == cache[Key(calls[i])]
         dim == extract_webp_dimensions(e.data)
     IN  calls' = [calls EXCEPT ![i] =
           [@ EXCEPT !.pc = "done", !.under = e.under,
                     !.res = From(Ok("cache", dim.w, dim.h, e.data),
                                  "cache_file")]]
  /\ UNCHANGED <<file, cache, queueState, background>>

\* fs::write(&cache_path, &webp_data), first half (673, 777): File::create
\* makes the file or truncates the one that is there
Create(i) ==
  /\ calls[i].pc = "create"
  /\ cache' = MapInsert(cache, Key(calls[i]), Entry(NoBytes, calls[i].ticks))
  /\ calls' = [calls EXCEPT ![i].pc = "write"]
  /\ UNCHANGED <<file, queueState, background>>

\* fs::write, second half: write_all puts the bytes at the start of the file;
\* Ok with source = DctScaling (676-685, 780-789)
Write(i) ==
  /\ calls[i].pc = "write"
  /\ cache' = [cache EXCEPT ![Key(calls[i])].data = WebpOf(calls[i])]
  /\ calls' = [calls EXCEPT ![i] =
       [@ EXCEPT !.pc = "done",
                 !.res = From(Ok("dct_scaling", calls[i].w, calls[i].h,
                                 WebpOf(calls[i])), "decode")]]
  /\ UNCHANGED <<file, queueState, background>>

\* fs::write fails (no space, no permission): .map_err(..)? returns the Err and
\* the file stays as far as it was written
WriteFail(i) ==
  /\ calls[i].pc \in {"create", "write"}
  /\ calls' = [calls EXCEPT ![i] = [@ EXCEPT !.pc = "done", !.res = Err("write")]]
  /\ UNCHANGED <<file, cache, queueState, background>>

\* the source file is modified: its modification time moves on
Touch ==
  /\ Len(calls) + file.ticks < MaxOps
  /\ file' = [file EXCEPT !.ticks = @ + 1]
  /\ UNCHANGED <<cache, calls, queueState, background>>

\* the decode task of the queue keeps the result of generate_thumbnail as it
\* is: comp.insert(req.path.clone(), result.clone()) (thumbnail_queue.rs 202-207)
StoreResult(i) ==
  /\ calls[i].pc = "done"
  /\ calls[i].kind = "fast"
  /\ calls[i].res.ok
  /\ completed' = MapInsert(completed, file.path, calls[i].res)
  /\ completed' # completed
  /\ UNCHANGED <<queue, total, paused, is_processing, num_cpus, cmd, drivers,
                 tasks, events, failed, history, producer, background>>

CallStep(i) ==
  \/ Lookup(i)
  \/ Read(i)
  \/ Create(i)
  \/ Write(i)

ProducerInit ==
  /\ queue = <<>>
  /\ completed = EmptyMap
  /\ total = 0
  /\ paused = FALSE
  /\ is_processing = FALSE
  /\ num_cpus = 1
  /\ cmd = "none"
  /\ drivers = <<>>
  /\ tasks = {}
  /\ events = <<>>
  /\ failed = {}
  /\ listing = <<>>
  /\ nInit = 0
  /\ nItems = 0
  /\ nCalls = 0
  /\ updV = NoUpdate
  /\ pauseSnap = {}
  /\ replaced = [queued |-> 0, done |-> 0]
  /\ file \in Files
  /\ cache = NoCache
  /\ calls = <<>>
  /\ HqIdle
  /\ WatchIdle
  /\ SideIdle

ProducerNext ==
  \/ StartFast
  \/ StartHq
  \/ Touch
  \/ \E i \in 1 .. Len(calls) :
       \/ Lookup(i)
       \/ Read(i)
       \/ Create(i)
       \/ Write(i)
       \/ WriteFail(i)
       \/ StoreResult(i)

ProducerSpec == ProducerInit /\ [][ProducerNext]_vars

\* ======================================================= the HQ worker
\* ------------------------------------------------- bounds of the HQ worker
MaxHqOps == 4       \* load_existing_hq_thumbnails and start_hq_thumbnail_worker
                    \* calls in one behaviour, plus the paths handed to them
MaxPool == 4        \* paths of the one pass whose permits are counted
MaxBatch == 7       \* paths of the one pass whose time is measured
MaxTime == 4        \* idle-poll intervals measured

\* the constants of thumbnail_queue.rs
HQ_MAX_CONCURRENT == 3
IDLE_THRESHOLD_MS == 3000
IDLE_CHECK_INTERVAL_MS == 500

\* the folder the passes work on: two JPEGs and a PNG, which the JPEG decoder
\* of generate_hq_thumbnail does not read
Folder ==
  [p \in {"a", "b", "c"} |->
     CASE p = "a" -> [SourceFile("jpg", "jpeg", "no_app1", 4000, 3000, 1, 1)
                        EXCEPT !.path.stem = "a"]
       [] p = "b" -> [SourceFile("jpeg", "jpeg", "no_thumb", 640, 480, 1, 1)
                        EXCEPT !.path.stem = "b"]
       [] p = "c" -> [SourceFile("png", "png", "none", 1000, 500, 1, 1)
                        EXCEPT !.path.stem = "c"]]

\* image_paths: the first n files of the listing a, b, c, a, b, c, ..
Listing(n) ==
  [i \in 1 .. n |-> IF i % 3 = 1 THEN "a" ELSE IF i % 3 = 2 THEN "b" ELSE "c"]
HqLists == {Listing(n) : n \in 0 .. MaxHqOps}

\* ------------------------------------------------ idle_detector.rs (13-79)
\* is_app_focused: the foreground window is the registered window; with no
\* window registered, and in a build for another system, always true
is_app_focused ==
  IF desktop.build = "windows" /\ desktop.handle
    THEN desktop.foreground = "app"
    ELSE TRUE

\* get_idle_time_ms: GetTickCount - LASTINPUTINFO.dwTime; always 0 in a build
\* for another system
get_idle_time_ms == IF desktop.build = "windows" THEN desktop.idle ELSE 0

should_generate_hq(threshold_ms) ==
  IF ~is_app_focused THEN TRUE ELSE get_idle_time_ms >= threshold_ms

\* ------------------------------------------------------------ pass records
\* a per-path task: none (not spawned), wait (for a permit), sleep (in the idle
\* poll), write (in fs::write of generate_hq_thumbnail) or done; wake is the
\* time its sleep ends; saw and out are history: the task has seen the idle
\* gate open, and how it ended (cache, dct_scaling, err or cancelled)
HqTask(pc, wake, saw, out) == [pc |-> pc, wake |-> wake, saw |-> saw, out |-> out]

\* an event of a pass as a whole; at and done are history: the time it was
\* emitted at and the tasks of the pass that had ended by then
HqEvent(type, at, done) == [type |-> type, at |-> at, done |-> done]

\* the task that runs a pass: spawn (in the loop that spawns the per-path
\* tasks), join (awaiting them) or done; count is the AtomicUsize `completed`;
\* called, at, after and left are history: cancel was called while the pass
\* was running, and when, the passes that had ended when this one was started,
\* and the cache directory as this pass left it
NewPass(kind, image_paths) ==
  [kind |-> kind, paths |-> image_paths, total |-> Len(image_paths),
   pc |-> IF image_paths = <<>> THEN "join" ELSE "spawn", next |-> 1, count |-> 0,
   task |-> [i \in 1 .. Len(image_paths) |-> HqTask("none", 0, FALSE, "")],
   sent |-> <<>>, called |-> FALSE, at |-> 0,
   after |-> {q \in 1 .. Len(passes) : passes[q].pc = "done"}, left |-> NoCache]

HqDone(ps) == {i \in 1 .. Len(ps.paths) : ps.task[i].pc = "done"}
HqHolding(ps) == {i \in 1 .. Len(ps.paths) : ps.task[i].pc \in {"sleep", "write"}}
HqWaiting(ps) == {i \in 1 .. Len(ps.paths) : ps.task[i].pc = "wait"}

\* variant of HqPermits: the semaphore has one permit too many
HqPermitsOneMore(ps) == HQ_MAX_CONCURRENT + 1 - Cardinality(HqHolding(ps))

\* Semaphore::new(HQ_MAX_CONCURRENT): the permits left in the pass's semaphore
HqPermits(ps) == HQ_MAX_CONCURRENT - Cardinality(HqHolding(ps))

\* the calls made so far and the paths handed to them
HqOps == LET RECURSIVE Sum(_)
             Sum(n) == IF n = 0 THEN 0 ELSE Sum(n - 1) + 1 + Len(passes[n].paths)
         IN  Sum(Len(passes))

\* ------------------------------------------------------------- commands
\* load_existing_hq_thumbnails (258-309): the pass task is spawned
load_existing_hq_thumbnails(image_paths) ==
  /\ passes' = Append(passes, NewPass("existing", image_paths))
  /\ UNCHANGED <<hq_cancelled, desktop, now, cache, besideHq>>

\* variant of start_hq_thumbnail_worker: the flag is left as it is
start_hq_thumbnail_worker_no_reset(image_paths) ==
  /\ passes' = Append(passes, NewPass("missing", image_paths))
  /\ UNCHANGED <<hq_cancelled, desktop, now, cache, besideHq>>

\* start_hq_thumbnail_worker (312-393): the flag is reset, then the pass task
\* is spawned
start_hq_thumbnail_worker(image_paths) ==
  /\ hq_cancelled' = FALSE
  /\ passes' = Append(passes, NewPass("missing", image_paths))
  /\ UNCHANGED <<desktop, now, cache, besideHq>>

\* cancel_hq_thumbnail_generation (396-398)
cancel_hq_thumbnail_generation ==
  /\ ~hq_cancelled
  /\ hq_cancelled' = TRUE
  /\ passes' = [p \in 1 .. Len(passes) |->
       IF passes[p].pc = "done" \/ passes[p].called THEN passes[p]
       ELSE [passes[p] EXCEPT !.called = TRUE, !.at = now]]
  /\ UNCHANGED <<desktop, now, cache, besideHq>>

\* ------------------------------------------------------------ the pass task
\* one round of `for path in image_paths` (267-299, 324-379): in
\* start_hq_thumbnail_worker the flag is looked at first, and when it is set
\* thumbnail-hq-cancelled is emitted and the loop is left
HqSpawn(p) ==
  LET ps == passes[p]
      last == ps.next = Len(ps.paths)
  IN  /\ ps.pc = "spawn"
      /\ passes' = [passes EXCEPT ![p] =
           IF ps.kind = "missing" /\ hq_cancelled
             THEN [ps EXCEPT !.pc = "join",
                     !.sent = Append(@, HqEvent("cancelled", now, HqDone(ps)))]
             ELSE [ps EXCEPT !.task[ps.next].pc = "wait",
                     !.next = @ + 1,
                     !.pc = IF last THEN "join" ELSE "spawn"]]
      /\ UNCHANGED <<hq_cancelled, desktop, now, cache, besideHq>>

\* variant of HqFinish: the tasks are not awaited
HqFinishNoJoin(p) ==
  LET ps == passes[p]
  IN  /\ ps.pc = "join"
      /\ passes' = [passes EXCEPT ![p] =
           [ps EXCEPT !.pc = "done", !.left = cache,
              !.sent = Append(@, HqEvent(
                 IF ps.kind = "existing" THEN "existing_loaded"
                 ELSE IF ~hq_cancelled THEN "all_completed" ELSE "cancelled",
                 now, HqDone(ps)))]]
      /\ UNCHANGED <<hq_cancelled, desktop, now, cache, besideHq>>

\* every task has been awaited (302-304, 382-384); the last event of the pass
\* (307, 387-391)
HqFinish(p) ==
  LET ps == passes[p]
  IN  /\ ps.pc = "join"
      /\ \A i \in 1 .. Len(ps.paths) : ps.task[i].pc \in {"none", "done"}
      /\ passes' = [passes EXCEPT ![p] =
           [ps EXCEPT !.pc = "done", !.left = cache,
              !.sent = Append(@, HqEvent(
                 IF ps.kind = "existing" THEN "existing_loaded"
                 ELSE IF ~hq_cancelled THEN "all_completed" ELSE "cancelled",
                 now, HqDone(ps)))]]
      /\ UNCHANGED <<hq_cancelled, desktop, now, cache, besideHq>>

\* --------------------------------------------------------- a per-path task
\* generate_hq_thumbnail(path) up to the return or to fs::write (thumbnail.rs
\* 741-777): the cache file is there and is returned as it is, or the JPEG
\* decoder fails, or the file is decoded and the cache file created
HqLookup(path) ==
  LET f == Folder[path]
      k == generate_cache_key(f.path, get_file_mtime(f))
      rgb == generate_dct_thumbnail(f, max_size)
  IN  IF k \in DOMAIN cache
        THEN [pc |-> "done", out |-> "cache", cache |-> cache]
        ELSE IF rgb.ok
               THEN [pc |-> "write", out |-> "",
                     cache |-> MapInsert(cache, k, Entry(NoBytes, f.ticks))]
               ELSE [pc |-> "done", out |-> "err", cache |-> cache]

\* the state of pass ps when its task i has ended with out: Ok counts and
\* emits thumbnail-hq-progress and thumbnail-hq-completed, Err is printed
\* (279-295, 359-375)
HqEnded(ps, i, saw, out) ==
  [ps EXCEPT !.task[i] = HqTask("done", 0, saw, out),
             !.count = IF out \in {"cache", "dct_scaling"} THEN @ + 1 ELSE @]

\* the state of pass ps when its task i calls generate_hq_thumbnail
HqProduce(ps, i, saw) ==
  LET r == HqLookup(ps.paths[i])
  IN  IF r.pc = "done" THEN HqEnded(ps, i, saw, r.out)
      ELSE [ps EXCEPT !.task[i] = HqTask("write", 0, saw, "")]

\* the state of pass ps when its task i has found the idle gate open: the flag
\* is looked at once more (353-355)
HqGateOpen(ps, i) ==
  IF hq_cancelled THEN HqEnded(ps, i, TRUE, "cancelled") ELSE HqProduce(ps, i, TRUE)

\* the state of pass ps when its task i has found the idle gate closed:
\* sleep(IDLE_CHECK_INTERVAL_MS)
HqGateClosed(ps, i) == [ps EXCEPT !.task[i] = HqTask("sleep", now + 1, FALSE, "")]

HqCacheAfter(ps, i, produces) ==
  IF produces THEN HqLookup(ps.paths[i]).cache ELSE cache

\* semaphore.acquire() (275, 339) and what follows without a wait: in
\* load_existing_hq_thumbnails the call of generate_hq_thumbnail (278), in
\* start_hq_thumbnail_worker the first look at the idle gate (342)
HqAcquire(p, i) ==
  LET ps == passes[p]
      open == should_generate_hq(IDLE_THRESHOLD_MS)
  IN  /\ ps.task[i].pc = "wait"
      /\ HqPermits(ps) > 0
      /\ passes' = [passes EXCEPT ![p] =
           IF ps.kind = "existing" THEN HqProduce(ps, i, FALSE)
           ELSE IF open THEN HqGateOpen(ps, i)
           ELSE HqGateClosed(ps, i)]
      /\ cache' = HqCacheAfter(ps, i,
                    ps.kind = "existing" \/ (open /\ ~hq_cancelled))
      /\ UNCHANGED <<hq_cancelled, desktop, now, besideHq>>

\* the sleep is over (344): the flag is looked at (346-349), then the idle
\* gate again (342)
HqPoll(p, i) ==
  LET ps == passes[p]
      open == should_generate_hq(IDLE_THRESHOLD_MS)
  IN  /\ ps.task[i].pc = "sleep"
      /\ passes' = [passes EXCEPT ![p] =
           IF hq_cancelled THEN HqEnded(ps, i, FALSE, "cancelled")
           ELSE IF open THEN HqGateOpen(ps, i)
           ELSE HqGateClosed(ps, i)]
      /\ cache' = HqCacheAfter(ps, i, open /\ ~hq_cancelled)
      /\ UNCHANGED <<hq_cancelled, desktop, now, besideHq>>

\* fs::write puts the bytes into the cache file; Ok with source = DctScaling
\* (thumbnail.rs 777-789)
HqWrite(p, i) ==
  LET ps == passes[p]
      f == Folder[ps.paths[i]]
      k == generate_cache_key(f.path, get_file_mtime(f))
      rgb == generate_dct_thumbnail(f, max_size)
  IN  /\ ps.task[i].pc = "write"
      /\ cache' = [cache EXCEPT ![k].data = encode_thumbnail_to_webp(rgb.w, rgb.h, quality)]
      /\ passes' = [passes EXCEPT ![p] = HqEnded(ps, i, ps.task[i].saw, "dct_scaling")]
      /\ UNCHANGED <<hq_cancelled, desktop, now, besideHq>>

\* fs::write fails after it has created the file: the Err is returned
\* (thumbnail.rs 777-778)
HqWriteFail(p, i) ==
  LET ps == passes[p]
  IN  /\ ps.task[i].pc = "write"
      /\ passes' = [passes EXCEPT ![p] = HqEnded(ps, i, ps.task[i].saw, "err")]
      /\ UNCHANGED <<hq_cancelled, desktop, now, cache, besideHq>>

\* ------------------------------------------------------- the window system
\* another window, or the window of the application, comes to the foreground
Foreground(w) ==
  /\ desktop.foreground # w
  /\ desktop' = [desktop EXCEPT !.foreground = w]
  /\ UNCHANGED <<hq_cancelled, passes, now, cache, besideHq>>

\* the user makes an input: the idle time starts again
UserInput ==
  /\ desktop.idle # 0
  /\ desktop' = [desktop EXCEPT !.idle = 0]
  /\ UNCHANGED <<hq_cancelled, passes, now, cache, besideHq>>

\* no input for IDLE_THRESHOLD_MS
UserIdle ==
  /\ desktop.idle < IDLE_THRESHOLD_MS
  /\ desktop' = [desktop EXCEPT !.idle = IDLE_THRESHOLD_MS]
  /\ UNCHANGED <<hq_cancelled, passes, now, cache, besideHq>>

\* ------------------------------------------------------------------ HqSpec
HqInit ==
  /\ Init
  /\ num_cpus = 1

HqCommand ==
  \E image_paths \in HqLists :
       /\ HqOps + 1 + Len(image_paths) <= MaxHqOps
       /\ \/ load_existing_hq_thumbnails(image_paths)
          \/ start_hq_thumbnail_worker(image_paths)

HqPassStep ==
  \E p \in 1 .. Len(passes) :
    \/ HqSpawn(p)
    \/ HqFinish(p)

HqTaskStep ==
  \E p \in 1 .. Len(passes) : \E i \in 1 .. Len(passes[p].paths) :
    \/ HqAcquire(p, i)
    \/ HqPoll(p, i)
    \/ HqWrite(p, i)

HqFailure ==
  \E p \in 1 .. Len(passes) : \E i \in 1 .. Len(passes[p].paths) : HqWriteFail(p, i)

DesktopStep ==
  \/ \E w \in {"app", "other"} : Foreground(w)
  \/ UserInput
  \/ UserIdle

HqNext ==
  \/ HqCommand
  \/ cancel_hq_thumbnail_generation
  \/ HqPassStep
  \/ HqTaskStep
  \/ HqFailure
  \/ DesktopStep

HqSpec == HqInit /\ [][HqNext]_vars

\* ----------------------------------------------------------- HqRestartSpec
\* start_hq_thumbnail_worker passes and cancel, with no failing write and with
\* the user at work, so that the idle gate is open while the window is in the
\* background; the runtime runs every task that can take a step
HqRestartCommand ==
  \E image_paths \in HqLists :
       /\ HqOps + 1 + Len(image_paths) <= MaxHqOps
       /\ start_hq_thumbnail_worker(image_paths)

HqRestartNext ==
  \/ HqRestartCommand
  \/ cancel_hq_thumbnail_generation
  \/ HqPassStep
  \/ HqTaskStep
  \/ \E w \in {"app", "other"} : Foreground(w)

HqRestartSpec ==
  /\ HqInit
  /\ [][HqRestartNext]_vars
  /\ WF_vars(HqPassStep)
  /\ WF_vars(HqTaskStep)

\* ------------------------------------------------------------- HqBuildSpec
\* the state before the first HQ command, with the window system in one of
\* the states D
HqInitOn(D) ==
  /\ queue = <<>>
  /\ completed = EmptyMap
  /\ total = 0
  /\ paused = FALSE
  /\ is_processing = FALSE
  /\ num_cpus = 1
  /\ cmd = "none"
  /\ drivers = <<>>
  /\ tasks = {}
  /\ events = <<>>
  /\ failed = {}
  /\ listing = <<>>
  /\ nInit = 0
  /\ nItems = 0
  /\ nCalls = 0
  /\ updV = NoUpdate
  /\ pauseSnap = {}
  /\ replaced = [queued |-> 0, done |-> 0]
  /\ file = NoFile
  /\ cache = NoCache
  /\ calls = <<>>
  /\ hq_cancelled = FALSE
  /\ passes = <<>>
  /\ desktop \in D
  /\ now = 0
  /\ WatchIdle
  /\ SideIdle

\* the HQ worker in any build of the application
HqBuildSpec == HqInitOn(Builds) /\ [][HqNext]_vars

\* -------------------------------------------------------------- HqPoolSpec
\* one pass over a list longer than the semaphore has permits
HqPoolCommand ==
  /\ passes = <<>>
  /\ \E n \in 1 .. MaxPool :
       \/ load_existing_hq_thumbnails(Listing(n))
       \/ start_hq_thumbnail_worker(Listing(n))

HqPoolNext ==
  \/ HqPoolCommand
  \/ cancel_hq_thumbnail_generation
  \/ HqPassStep
  \/ HqTaskStep
  \/ HqFailure
  \/ DesktopStep

\* the runtime runs every task that can take a step
HqPoolSpec ==
  /\ HqInit
  /\ [][HqPoolNext]_vars
  /\ WF_vars(HqPassStep)
  /\ WF_vars(HqTaskStep)

\* ------------------------------------------------------------- HqTimedSpec
\* one start_hq_thumbnail_worker pass and the time that passes: a sleep lasts
\* one idle-poll interval and every other step takes no time, so the time a
\* behaviour takes is the least the program can take
HqTimedCommand ==
  /\ passes = <<>>
  /\ \E n \in 1 .. MaxBatch : start_hq_thumbnail_worker(Listing(n))

\* a step that takes no time is due
HqDue ==
  \E p \in 1 .. Len(passes) :
    LET ps == passes[p]
    IN  \/ ps.pc = "spawn"
        \/ ps.pc = "join" /\ \A i \in 1 .. Len(ps.paths) : ps.task[i].pc \in {"none", "done"}
        \/ \E i \in 1 .. Len(ps.paths) :
             \/ ps.task[i].pc = "wait" /\ HqPermits(ps) > 0
             \/ ps.task[i].pc = "write"
             \/ ps.task[i].pc = "sleep" /\ ps.task[i].wake <= now

\* IDLE_CHECK_INTERVAL_MS pass
Tick ==
  /\ passes # <<>>
  /\ now < MaxTime
  /\ ~HqDue
  /\ now' = now + 1
  /\ UNCHANGED <<hq_cancelled, passes, desktop, cache, besideHq>>

HqTimedTaskStep ==
  \E p \in 1 .. Len(passes) : \E i \in 1 .. Len(passes[p].paths) :
    \/ HqAcquire(p, i)
    \/ passes[p].task[i].wake <= now /\ HqPoll(p, i)
    \/ HqWrite(p, i)

HqTimedNext ==
  \/ HqTimedCommand
  \/ cancel_hq_thumbnail_generation
  \/ HqPassStep
  \/ HqTimedTaskStep
  \/ HqFailure
  \/ Tick

\* the user is at work in the window of the application, or the window is in
\* the background, for the whole pass
HqTimedSpec ==
  HqInitOn({Desktop("windows", TRUE, "app", 0), Desktop("windows", TRUE, "other", 0)})
    /\ [][HqTimedNext]_vars

\* =================================================== the folder watcher
\* ------------------------------------------ bounds of the folder watcher
\* debouncers created by watch_folder in one behaviour
MaxWatch == 2
\* debounced events the backend reports in one behaviour
MaxChanges == 2

\* ----------------------------------------------- folder_watcher.rs (12-42)
IMAGE_EXTENSIONS ==
  {"jpg", "jpeg", "png", "gif", "bmp", "webp", "tiff", "tif", "exr", "avif", "ico", "svg"}

\* variant of is_image_file: the extension is compared as it is written
is_image_file_cased(path) == path.ext # "" /\ path.ext \in IMAGE_EXTENSIONS

\* is_image_file (35-42): a path without an extension is no image
is_image_file(path) == path.ext # "" /\ to_lowercase(path.ext) \in IMAGE_EXTENSIONS

\* the directories the user opens
WatchDirs == {"d1", "d2"}

WatchPath(dir, stem, ext) == [dir |-> dir, stem |-> stem, ext |-> ext]

\* a DebouncedEvent of the backend: its kind, one of the notify::EventKind
\* Any, Access, Create, Modify, Remove and Other, and the paths it is about
DebouncedEvent(kind, paths) == [kind |-> kind, paths |-> paths]

\* the events the backend reports for a directory: one path each, with a cased
\* extension, a file that is no image, a RAW file and a path without an
\* extension among them, and a rename, which carries both of its paths
DebouncedEvents(dir) ==
  {DebouncedEvent("Create", <<WatchPath(dir, "a", "JPG")>>),
   DebouncedEvent("Create", <<WatchPath(dir, "n", "txt")>>),
   DebouncedEvent("Remove", <<WatchPath(dir, "b", "png")>>),
   DebouncedEvent("Remove", <<WatchPath(dir, "r", "Cr2")>>),
   DebouncedEvent("Modify", <<WatchPath(dir, "b", "png"), WatchPath(dir, "c", "")>>),
   DebouncedEvent("Access", <<WatchPath(dir, "b", "png")>>),
   DebouncedEvent("Any", <<WatchPath(dir, "a", "JPG")>>),
   DebouncedEvent("Other", <<WatchPath(dir, "b", "png")>>)}

\* FolderChangeEvent (12-19), as serde writes its tag
FolderChangeEvent(kind) ==
  CASE kind = "Create" -> "file_added"
    [] kind = "Remove" -> "file_removed"
    [] kind = "Modify" -> "file_modified"
    [] OTHER           -> "none"

\* the thread of a debouncer that new_debouncer starts (68-110): the directory
\* it was made for, whether the backend watches it, its stop flag, its place
\* in its loop, the events not yet delivered and the (kind, path) pairs of the
\* batch the callback is at work on
Debouncer(dir, watching) ==
  [dir |-> dir, watching |-> watching, stop |-> ~watching, pc |-> "idle",
   data |-> <<>>, batch |-> <<>>]

\* dropping a debouncer (114-116, 131-133, and 122 for one that could not
\* watch): the backend stops watching and the stop flag is set; the thread
\* is not joined
Dropped(t) == [t EXCEPT !.watching = FALSE, !.stop = TRUE]

DropCurrent(w) ==
  IF w.debouncer = 0 THEN w.threads
  ELSE [w.threads EXCEPT ![w.debouncer] = Dropped(@)]

\* for event in events, for path in &event.paths (74-75)
RECURSIVE Pairs(_)
Pairs(batch) ==
  IF batch = <<>> THEN <<>>
  ELSE [i \in 1 .. Len(batch[1].paths) |->
          [kind |-> batch[1].kind, path |-> batch[1].paths[i]]]
       \o Pairs(Tail(batch))

\* ---------------------------------------------------------------- commands
\* what a call of watch_folder can meet: the path is no directory (60-62),
\* new_debouncer fails (110), watch fails (119-122), or nothing fails
WatchOutcomes == {"invalid", "no_debouncer", "no_watch", "ok"}

\* watch_folder (57-127)
watch_folder(folder_path, outcome) ==
  /\ outcome = "invalid" <=> folder_path \notin WatchDirs
  /\ outcome \in {"no_watch", "ok"} => Len(watcher.threads) < MaxWatch
  /\ LET k == Len(watcher.threads) + 1
     IN  watcher' =
           CASE outcome = "invalid" -> [watcher EXCEPT !.last = "Err"]
             [] outcome = "no_debouncer" ->
                  [watcher EXCEPT !.current_path = folder_path, !.last = "Err"]
             [] OTHER ->
                  [watcher EXCEPT
                    !.current_path = folder_path,
                    !.threads = Append(DropCurrent(watcher),
                                       Debouncer(folder_path, outcome = "ok")),
                    !.debouncer = IF outcome = "ok" THEN k ELSE 0,
                    !.last = IF outcome = "ok" THEN "Ok" ELSE "Err"]
  /\ watcher' # watcher
  /\ UNCHANGED <<changes, besideWatch>>

\* stop_watching (129-135)
stop_watching ==
  /\ watcher.debouncer # 0 \/ watcher.current_path # ""
  /\ watcher' = [watcher EXCEPT
       !.current_path = "",
       !.threads = DropCurrent(watcher),
       !.debouncer = 0,
       !.last = "stopped"]
  /\ UNCHANGED <<changes, besideWatch>>

\* ------------------------------------------------------------- the backend
\* the backend reports a debounced change in a directory it watches
FsChange(k, event) ==
  /\ watcher.threads[k].watching
  /\ watcher.seen < MaxChanges
  /\ watcher' = [watcher EXCEPT
       !.seen = @ + 1,
       !.threads[k].data = Append(@, event)]
  /\ UNCHANGED <<changes, besideWatch>>

\* ------------------------------------------- the thread of a debouncer
\* the top of the loop: the thread looks at the stop flag
WatchLoop(k) ==
  /\ watcher.threads[k].pc = "idle"
  /\ watcher' = [watcher EXCEPT
       !.threads[k].pc = IF watcher.threads[k].stop THEN "ended" ELSE "tick",
       !.threads[k].data = IF watcher.threads[k].stop THEN <<>> ELSE @]
  /\ UNCHANGED <<changes, besideWatch>>

\* after its tick the thread takes the events that are due and calls the
\* callback with them (71), or goes round with nothing to deliver
WatchCollect(k) ==
  /\ watcher.threads[k].pc = "tick"
  /\ watcher' = [watcher EXCEPT
       !.threads[k].pc = IF watcher.threads[k].data = <<>> THEN "idle" ELSE "handle",
       !.threads[k].batch = Pairs(watcher.threads[k].data),
       !.threads[k].data = <<>>]
  /\ UNCHANGED <<changes, besideWatch>>

\* whether the debouncer that emits has been replaced by one for another
\* directory
Replaced(k) ==
  /\ watcher.debouncer # 0
  /\ watcher.debouncer # k
  /\ watcher.threads[watcher.debouncer].dir # watcher.threads[k].dir

\* the body of the loops of the callback for one path of one event (76-99)
Callback(k) ==
  /\ watcher.threads[k].pc = "handle"
  /\ LET pair == Head(watcher.threads[k].batch)
         rest == Tail(watcher.threads[k].batch)
         type == FolderChangeEvent(pair.kind)
     IN  /\ watcher' = [watcher EXCEPT
               !.handled = Append(@, pair),
               !.threads[k].batch = rest,
               !.threads[k].pc = IF rest = <<>> THEN "idle" ELSE "handle"]
         /\ changes' = IF is_image_file(pair.path) /\ type # "none"
                       THEN Append(changes, [type |-> type, path |-> pair.path,
                                             by |-> k, late |-> Replaced(k)])
                       ELSE changes
  /\ UNCHANGED besideWatch

\* --------------------------------------------------------------- WatchSpec
\* the user opens one folder after another; the backend reports new images
WatchCommand ==
  \/ \E folder_path \in WatchDirs \cup {"nowhere"} : \E outcome \in WatchOutcomes :
       watch_folder(folder_path, outcome)
  \/ stop_watching

WatchBackend ==
  \E k \in 1 .. Len(watcher.threads) :
    \E event \in {e \in DebouncedEvents(watcher.threads[k].dir) :
                    e.kind = "Create" /\ is_image_file(e.paths[1])} :
      FsChange(k, event)

WatchThread ==
  \E k \in 1 .. Len(watcher.threads) :
    \/ WatchLoop(k)
    \/ WatchCollect(k)
    \/ Callback(k)

WatchNext ==
  \/ WatchCommand
  \/ WatchBackend
  \/ WatchThread

WatchInit == Init /\ num_cpus = 1

WatchSpec == WatchInit /\ [][WatchNext]_vars

\* --------------------------------------------------------- WatchEventsSpec
\* one folder is opened and the backend reports changes of every kind
WatchOnce ==
  /\ watcher.threads = <<>>
  /\ \E folder_path \in WatchDirs : watch_folder(folder_path, "ok")

WatchEvents ==
  \E k \in 1 .. Len(watcher.threads) :
    \E event \in DebouncedEvents(watcher.threads[k].dir) : FsChange(k, event)

WatchEventsNext ==
  \/ WatchOnce
  \/ stop_watching
  \/ WatchEvents
  \/ WatchThread

WatchEventsSpec == WatchInit /\ [][WatchEventsNext]_vars

\* ====================================================== EXIF orientation
\* the largest value of the Orientation tag that is tried; the tag is a
\* 16-bit SHORT, and values above 255 show what orientation as u8 keeps
MaxShort == 260

\* the files extract_exif_metadata is called for: the EXIF container can be
\* read or not, the Orientation tag of the PRIMARY IFD is missing, a SHORT
\* with a value, or of another type, and the THUMBNAIL IFD has an
\* orientation of its own (0: none)
ExifFiles ==
  {[NoMeta EXCEPT !.pc = "chosen", !.readable = r, !.tag = t, !.value = v, !.thumb = th] :
     r \in BOOLEAN, t \in {"none", "short", "long"}, v \in 0 .. MaxShort, th \in {0, 6}}

\* a file is chosen
ChooseExifFile(f) ==
  /\ meta.pc = "none"
  /\ f.tag = "none" => f.value = 0
  /\ f.tag = "long" => f.value = 6
  /\ ~f.readable => f.tag = "none" /\ f.thumb = 0
  /\ meta' = f
  /\ UNCHANGED <<photo, locks, pipeline>>

\* ExifMetadata::default() (54-71)
DefaultOrientation == 1

\* orientation as u8 (149)
as_u8(n) == n % 256

\* extract_exif_metadata (134-152, 229) as generate_thumbnail and
\* generate_hq_thumbnail call it, with .ok() (609, 752, 768): the
\* exif_metadata of the result and its orientation
extract_exif_metadata(m) ==
  IF ~m.readable THEN [m EXCEPT !.pc = "done", !.some = FALSE]
  ELSE [m EXCEPT !.pc = "done", !.some = TRUE,
                 !.orientation = IF m.tag = "short" THEN as_u8(m.value)
                                 ELSE DefaultOrientation]

\* the producer extracts the metadata of the file
ExtractExif ==
  /\ meta.pc = "chosen"
  /\ meta' = extract_exif_metadata(meta)
  /\ UNCHANGED <<photo, locks, pipeline>>

ExifNext ==
  \/ \E f \in ExifFiles : ChooseExifFile(f)
  \/ ExtractExif

ExifSpec == Init /\ [][ExifNext]_vars

\* ================================================================ ratings
\* how far outside 0..5 the ratings that are tried lie
MaxOff == 2

\* the ratings the frontend passes to write_rating
Ratings == (0 - MaxOff) .. (5 + MaxOff)

\* the files the rating commands are called for: the file exists or not; its
\* XMP packet is missing (-1), has no Rating (0) or a Rating; its EXIF
\* container cannot be read, or has no DateTimeOriginal, or one that
\* set_file_modified_time can parse, or one it cannot
Photos ==
  {[NoPhoto EXCEPT !.pc = "chosen", !.exists = e, !.xmp = x, !.taken = t] :
     e \in BOOLEAN, x \in {-1, 0, 3}, t \in {"unreadable", "none", "good", "bad"}}

\* a file is chosen
ChoosePhoto(f) ==
  /\ photo.pc = "none"
  /\ ~f.exists => f.xmp = -1 /\ f.taken = "unreadable"
  /\ photo' = f
  /\ UNCHANGED <<meta, locks, pipeline>>

\* how a call returns: call, rating, result and opened are history
RatingReturned(f, call, rating, result, opened) ==
  [f EXCEPT !.call = call, !.rating = rating, !.result = result, !.opened = opened]

\* the body of write_rating after the test of the rating (36-81):
\* read_exif_datetime (85-106), the XMP file opened for update (41-48), the
\* Rating set or deleted and written (51-72), the modification time set to
\* the time the picture was taken (77-79, 109-142)
write_rating_body(f, rating, open_ok, put_ok) ==
  IF ~f.exists \/ f.taken = "unreadable" \/ ~open_ok \/ ~put_ok
    THEN RatingReturned(f, "write_rating", rating, "Err", TRUE)
  ELSE LET written == [f EXCEPT !.xmp = rating, !.mtime = "written"]
       IN  CASE f.taken = "good" ->
                  RatingReturned([written EXCEPT !.mtime = "taken"], "write_rating", rating, "Ok", TRUE)
             [] f.taken = "bad" -> RatingReturned(written, "write_rating", rating, "Err", TRUE)
             [] OTHER -> RatingReturned(written, "write_rating", rating, "Ok", TRUE)

\* variant of write_rating: the rating is not tested
write_rating_unchecked(rating, open_ok, put_ok) ==
  /\ photo.pc = "chosen"
  /\ photo' = write_rating_body(photo, rating, open_ok, put_ok)
  /\ photo' # photo
  /\ UNCHANGED <<meta, locks, pipeline>>

\* write_rating (30-82)
write_rating(rating, open_ok, put_ok) ==
  /\ photo.pc = "chosen"
  /\ photo' = IF rating < 0 \/ rating > 5
                THEN RatingReturned(photo, "write_rating", rating, "Err", FALSE)
                ELSE write_rating_body(photo, rating, open_ok, put_ok)
  /\ photo' # photo
  /\ UNCHANGED <<meta, locks, pipeline>>

\* read_rating (8-27): the result is "Ok" with the rating read, 0 without a
\* Rating property
read_rating(open_ok) ==
  /\ photo.pc = "chosen"
  /\ photo' = IF ~photo.exists \/ ~open_ok \/ photo.xmp = -1
                THEN RatingReturned(photo, "read_rating", 0, "Err", TRUE)
                ELSE RatingReturned(photo, "read_rating", photo.xmp, "Ok", TRUE)
  /\ photo' # photo
  /\ UNCHANGED <<meta, locks, pipeline>>

RatingNext ==
  \/ \E f \in Photos : ChoosePhoto(f)
  \/ \E rating \in Ratings : \E open_ok, put_ok \in BOOLEAN :
       write_rating(rating, open_ok, put_ok)
  \/ \E open_ok \in BOOLEAN : read_rating(open_ok)

RatingSpec == Init /\ [][RatingNext]_vars

\* ==================================================== the locks of the queue
\* ------------------------------------------------------------------ bounds
\* the commands called in one behaviour and the paths handed to them
MaxLockOps == 3

\* the lock each statement asks for, and whether for writing or for reading
LockOf(at) ==
  CASE at = "init_queue"     -> <<"queue", "w">>          \* 68
    [] at = "init_total"     -> <<"total", "w">>          \* 69
    [] at = "init_completed" -> <<"completed", "w">>      \* 70
    [] at = "start_flag"     -> <<"is_processing", "w">>  \* 157
    [] at = "upd_queue"      -> <<"queue", "w">>          \* 91
    [] at = "pause_flag"     -> <<"paused", "w">>         \* 115
    [] at = "resume_flag"    -> <<"paused", "w">>         \* 121
    [] at = "get_completed"  -> <<"completed", "r">>      \* 143
    [] at = "drv_paused"     -> <<"paused", "r">>         \* 181
    [] at = "drv_queue"      -> <<"queue", "w">>          \* 188
    [] at = "drv_flag"       -> <<"is_processing", "w">>  \* 249
    [] at = "task_insert"    -> <<"completed", "w">>      \* 205
    [] at = "task_count"     -> <<"completed", "r">>      \* 211
    [] at = "task_total"     -> <<"total", "r">>          \* 214

\* the locks pr holds
Holds(l, pr) == {n \in LockNames : \E m \in {"r", "w"} : <<pr, m>> \in l.held[n]}

\* a request can be granted: a writer needs the lock free, a reader needs it
\* free of a writer
Compatible(l, n, m) ==
  IF m = "w" THEN l.held[n] = {} ELSE \A h \in l.held[n] : h[2] = "r"

\* pr drops the guards of the locks in ns
Released(l, pr, ns) ==
  [l EXCEPT !.held = [n \in LockNames |->
     IF n \in ns THEN {h \in l.held[n] : h[1] # pr} ELSE l.held[n]]]

Goto(l, pr, at, st) == [l EXCEPT !.pc[pr] = At(at, st)]

\* ------------------------------------------------------------- lock steps
\* lock().await, read().await, write().await: the request joins the queue of
\* the lock, which is served in the order of arrival
Ask(pr) ==
  /\ locks.pc[pr].st = "ask"
  /\ LET n == LockOf(locks.pc[pr].at)[1]
         m == LockOf(locks.pc[pr].at)[2]
     IN  locks' = [locks EXCEPT !.wait[n] = Append(@, <<pr, m>>),
                                !.pc[pr].st = "wait"]
  /\ UNCHANGED <<meta, photo, pipeline>>

\* the first request in the queue of lock n is granted
Grant(n) ==
  /\ locks.wait[n] # <<>>
  /\ LET pr == Head(locks.wait[n])[1]
         m == Head(locks.wait[n])[2]
     IN  /\ Compatible(locks, n, m)
         /\ locks' = [locks EXCEPT !.wait[n] = Tail(@),
                                   !.held[n] = @ \cup {<<pr, m>>},
                                   !.pc[pr].st = "held"]
  /\ UNCHANGED <<meta, photo, pipeline>>

\* --------------------------------------------------------------- commands
\* a command is called (lib.rs 491-540)
Call(at, n) ==
  /\ locks.pc[Cmd] = Nowhere
  /\ locks.calls + 1 + n <= MaxLockOps
  /\ locks' = [locks EXCEPT !.pc[Cmd] = At(at, "ask"), !.calls = @ + 1 + n, !.arg = n]
  /\ UNCHANGED <<meta, photo, pipeline>>

\* the command goes on with the guard it has been given: initialize (67-87)
\* keeps the queue and asks for total, keeps both and asks for completed, then
\* clears and fills and drops the three; start_worker (156-172) tests and sets
\* the flag and spawns the driver; update_priorities (90-111), pause (114-117),
\* resume (120-123) and get_all_completed (142-145) work under their one guard
CmdBody ==
  LET at == locks.pc[Cmd].at
  IN  /\ locks.pc[Cmd].st = "held"
      /\ locks' =
           CASE at = "init_queue" -> Goto(locks, Cmd, "init_total", "ask")
             [] at = "init_total" -> Goto(locks, Cmd, "init_completed", "ask")
             [] at = "init_completed" ->
                  Goto(Released([locks EXCEPT !.items = locks.arg], Cmd,
                                {"queue", "total", "completed"}),
                       Cmd, "start_flag", "ask")
             [] at = "start_flag" ->
                  LET l == Released(locks, Cmd, {"is_processing"})
                  IN  IF locks.processing THEN Goto(l, Cmd, "none", "run")
                      ELSE [l EXCEPT !.processing = TRUE,
                                     !.pc[Cmd] = Nowhere,
                                     !.pc[Driver] = At("drv_paused", "ask")]
             [] at = "upd_queue" -> Goto(Released(locks, Cmd, {"queue"}), Cmd, "none", "run")
             [] at = "pause_flag" ->
                  Goto(Released([locks EXCEPT !.paused = TRUE], Cmd, {"paused"}),
                       Cmd, "none", "run")
             [] at = "resume_flag" ->
                  Goto(Released([locks EXCEPT !.paused = FALSE], Cmd, {"paused"}),
                       Cmd, "none", "run")
             [] at = "get_completed" ->
                  Goto(Released(locks, Cmd, {"completed"}), Cmd, "none", "run")
      /\ UNCHANGED <<meta, photo, pipeline>>

\* ------------------------------------------------------------- the driver
\* the decode tasks that exist
Decoding == {t \in DecodeTasks : locks.pc[t] # Nowhere}

\* the driver goes on with the guard it has been given: the pause flag is
\* read (181), a request is popped (187-190), the flag is cleared and
\* thumbnail-all-completed emitted (249-252)
DriverBody ==
  LET at == locks.pc[Driver].at
  IN  /\ locks.pc[Driver].st = "held"
      /\ locks' =
           CASE at = "drv_paused" ->
                  Goto(Released(locks, Driver, {"paused"}), Driver,
                       IF locks.paused THEN "drv_sleep" ELSE "drv_queue",
                       IF locks.paused THEN "run" ELSE "ask")
             [] at = "drv_queue" ->
                  IF locks.items > 0
                    THEN Goto(Released([locks EXCEPT !.items = @ - 1], Driver, {"queue"}),
                              Driver, "drv_permit", "run")
                    ELSE Goto(Released(locks, Driver, {"queue"}), Driver, "drv_join", "run")
             [] at = "drv_flag" ->
                  Goto(Released([locks EXCEPT !.processing = FALSE], Driver,
                                {"is_processing"}),
                       Driver, "none", "run")
      /\ UNCHANGED <<meta, photo, pipeline>>

\* the 100 ms sleep of a paused driver ends (182-183)
DriverSleep ==
  /\ locks.pc[Driver] = At("drv_sleep", "run")
  /\ locks' = Goto(locks, Driver, "drv_paused", "ask")
  /\ UNCHANGED <<meta, photo, pipeline>>

\* a permit is acquired and the decode task spawned (194-234)
DriverPermit(t) ==
  /\ locks.pc[Driver] = At("drv_permit", "run")
  /\ locks.pc[t] = Nowhere
  /\ Cardinality(Decoding) < max_workers
  /\ locks' = [locks EXCEPT !.pc[t] = At("task_decode", "run"),
                            !.pc[Driver] = At("drv_paused", "ask")]
  /\ UNCHANGED <<meta, photo, pipeline>>

\* the handles have been awaited (244-246)
DriverAwait ==
  /\ locks.pc[Driver] = At("drv_join", "run")
  /\ Decoding = {}
  /\ locks' = Goto(locks, Driver, "drv_flag", "ask")
  /\ UNCHANGED <<meta, photo, pipeline>>

\* ------------------------------------------------------------ decode tasks
\* generate_thumbnail returns (201): Ok, and the task goes on to the insert,
\* or Err, and the task ends (226-231)
TaskDecoded(t, ok) ==
  /\ locks.pc[t] = At("task_decode", "run")
  /\ locks' = IF ok THEN Goto(locks, t, "task_insert", "ask") ELSE Goto(locks, t, "none", "run")
  /\ UNCHANGED <<meta, photo, pipeline>>

\* variant of TaskBody: the write guard of the insert is kept to the end of
\* the task
TaskBodyKeepsGuard(t) ==
  LET at == locks.pc[t].at
  IN  /\ locks.pc[t].st = "held"
      /\ locks' =
           CASE at = "task_insert" -> Goto(locks, t, "task_count", "ask")
             [] at = "task_count" ->
                  Goto(Released(locks, t, {"completed"}), t, "task_total", "ask")
             [] at = "task_total" ->
                  Goto(Released(locks, t, {"total"}), t, "none", "run")
      /\ UNCHANGED <<meta, photo, pipeline>>

\* the task goes on with the guard it has been given: the insert (204-207),
\* the length of the map (210-213), total (214) and the two events, after
\* which the permit is dropped and the task ends (216-231)
TaskBody(t) ==
  LET at == locks.pc[t].at
  IN  /\ locks.pc[t].st = "held"
      /\ locks' =
           CASE at = "task_insert" ->
                  Goto(Released(locks, t, {"completed"}), t, "task_count", "ask")
             [] at = "task_count" ->
                  Goto(Released(locks, t, {"completed"}), t, "task_total", "ask")
             [] at = "task_total" ->
                  Goto(Released(locks, t, {"total"}), t, "none", "run")
      /\ UNCHANGED <<meta, photo, pipeline>>

\* ---------------------------------------------------------------- LockSpec
LockCall ==
  \/ \E n \in 0 .. MaxLockOps : Call("init_queue", n)
  \/ \E at \in {"upd_queue", "pause_flag", "resume_flag", "get_completed"} : Call(at, 0)

CmdStep == Ask(Cmd) \/ CmdBody

DriverRun ==
  \/ Ask(Driver)
  \/ DriverBody
  \/ DriverSleep
  \/ \E t \in DecodeTasks : DriverPermit(t)
  \/ DriverAwait

TaskRun(t) ==
  \/ \E ok \in BOOLEAN : TaskDecoded(t, ok)
  \/ Ask(t)
  \/ TaskBody(t)

LockNext ==
  \/ LockCall
  \/ CmdStep
  \/ DriverRun
  \/ \E t \in DecodeTasks : TaskRun(t)
  \/ \E n \in LockNames : Grant(n)

\* every task is scheduled again, and a lock that can be given to the first
\* in its queue is given
LockInit == Init /\ num_cpus = MaxCpus

LockSpec ==
  /\ LockInit
  /\ [][LockNext]_vars
  /\ WF_vars(CmdStep)
  /\ WF_vars(DriverRun)
  /\ \A t \in DecodeTasks : WF_vars(TaskRun(t))
  /\ \A n \in LockNames : WF_vars(Grant(n))

\* ================================================================ claims
InQueue(V) == {i \in 1 .. Len(queue) : queue[i].index \in V}
NotInQueue(V) == {i \in 1 .. Len(queue) : queue[i].index \notin V}

C3_LowerIndexFirst ==
  updV # NoUpdate =>
    \A i \in InQueue(updV) : \A j \in InQueue(updV) :
      queue[i].index < queue[j].index => i < j

\* ---------------------------------------------------------------- events
EventsOf(type) == {i \in 1 .. Len(events) : events[i].type = type}
CompletedAt(p) == {i \in EventsOf("completed") : events[i].path = p}
Listed == {listing[i] : i \in 1 .. Len(listing)}
Distinct(l) == \A i, j \in 1 .. Len(l) : l[i] = l[j] => i = j

\* the positions in events of the first k thumbnail-completed events
FirstCompleted(k) ==
  {i \in EventsOf("completed") :
     Cardinality({j \in EventsOf("completed") : j <= i}) <= k}

\* C4: start_thumbnail_generation(paths) immediately followed by
\* update_priorities(V): the first |V| thumbnail-completed events carry exactly
\* the paths whose indices are in V, under every interleaving.
C4_FirstCompletedVisible ==
  (nInit = 1 /\ nCalls = 2 /\ updV # NoUpdate) =>
    LET V == {i \in updV : i < Len(listing)}
        k == Cardinality(V)
    IN  Cardinality(EventsOf("completed")) >= k =>
          {events[i].path : i \in FirstCompleted(k)} = {listing[i + 1] : i \in V}

\* C5, safety: in one session with distinct paths and no failed decode, the
\* thumbnail-completed events are for listed paths, at most one per path, every
\* thumbnail-progress event carries total = |paths|, and thumbnail-all-completed
\* is emitted at most once, as the last event, when every path has its event.
C5_SessionEvents ==
  (nInit = 1 /\ Distinct(listing) /\ failed = {}) =>
    /\ \A i \in EventsOf("completed") : events[i].path \in Listed
    /\ \A p \in Listed : Cardinality(CompletedAt(p)) <= 1
    /\ \A i \in EventsOf("progress") : events[i].total = Len(listing)
    /\ Cardinality(EventsOf("all_completed")) <= 1
    /\ \A i \in EventsOf("all_completed") :
         /\ i = Len(events)
         /\ \A p \in Listed : Cardinality(CompletedAt(p)) = 1

\* C5: in a single session (distinct paths, every decode succeeding) exactly one
\* thumbnail-completed event is emitted per path and none for another path,
\* every thumbnail-progress event carries total = |paths|, and
\* thumbnail-all-completed is emitted exactly once, after all of them.
C5_SingleSession ==
  /\ []C5_SessionEvents
  /\ (nInit = 1 /\ cmd = "none") ~> (EventsOf("all_completed") # {} \/ failed # {})

\* two distinct paths, both decoded, and the final event emitted
C5_Witness ==
  /\ nInit = 1
  /\ Len(listing) = 2
  /\ Distinct(listing)
  /\ failed = {}
  /\ Cardinality(EventsOf("completed")) = 2
  /\ EventsOf("all_completed") # {}

\* C6: while the queue is paused the completion map does not shrink, and no
\* item that was queued or held by the driver when pause() returned begins
\* decoding before resume().
C6_PauseHoldsBack ==
  /\ [][(paused /\ paused' /\ nInit' = nInit) =>
          Cardinality(DOMAIN completed') >= Cardinality(DOMAIN completed)]_vars
  /\ [](\A t \in tasks : ~t.snap)

\* C7: thumbnail-all-completed is emitted, and the processing flag cleared,
\* only in a state where the queue is empty and no decode task is outstanding.
C7_QuiescentEnd ==
  [][(\E d \in 1 .. Len(drivers) :
        /\ drivers[d].pc \in {"clear", "emit"}
        /\ drivers'[d].pc # drivers[d].pc)
       => (queue = <<>> /\ tasks = {})]_vars

\* the driver tasks that exist, and those that have not yet cleared the flag
LiveDrivers == {d \in 1 .. Len(drivers) : drivers[d].pc # "done"}
ActiveDrivers == {d \in 1 .. Len(drivers) : drivers[d].pc \notin {"emit", "done"}}

StartWorkerNoOp ==
  [][(cmd = "start_worker" /\ cmd' = "none" /\ is_processing)
       => drivers' = drivers]_vars

C9_BoundedDecodes ==
  /\ Cardinality(tasks) <= max_workers
  /\ \A d \in 1 .. Len(drivers) : Permits(d) >= 0

\* every permit is taken and the driver waits for one with a popped item
C9_Witness ==
  /\ Cardinality(tasks) = max_workers
  /\ \E d \in 1 .. Len(drivers) : drivers[d].pc = "acquire" /\ Permits(d) = 0

\* C10, safety: in a session with distinct paths a failed item has no entry in
\* the completion map and no thumbnail-completed event, and when
\* thumbnail-all-completed is emitted every other item has both.
C10_FailureIsLocal ==
  (nInit = 1 /\ Distinct(listing)) =>
    /\ \A f \in failed : f.path \notin DOMAIN completed /\ CompletedAt(f.path) = {}
    /\ EventsOf("all_completed") # {} =>
         \A p \in Listed \ {f.path : f \in failed} :
           p \in DOMAIN completed /\ CompletedAt(p) # {}

\* C10: a decode failure affects its own item only: no completion-map entry and
\* no completed event for it, every other item is processed, and the driver
\* still terminates and emits thumbnail-all-completed.
C10_FailureNeverPoisons ==
  /\ []C10_FailureIsLocal
  /\ (nInit = 1 /\ cmd = "none" /\ failed # {}) ~> (EventsOf("all_completed") # {})

\* one of two items failed, the other was decoded, and the session ended
C10_Witness ==
  /\ nInit = 1
  /\ Len(listing) = 2
  /\ Distinct(listing)
  /\ Cardinality(failed) = 1
  /\ Cardinality(EventsOf("completed")) = 1
  /\ EventsOf("all_completed") # {}

\* C11: in every reachable state the queued work items are unique by path,
\* whatever list initialize was given (lists that repeat a path included) and
\* whatever update_priorities calls were made.
C11_UniquePaths ==
  \A i, j \in 1 .. Len(queue) : queue[i].path = queue[j].path => i = j

\* C12: initialize(paths) replaces the session state: afterwards the queue
\* holds one work item per element of paths, in list order, with
\* priority = index = position, the completion map is empty and
\* total = |paths|, whatever the queue and the completion map held before.
C12_InitializeReplaces ==
  [][(cmd = "none" /\ cmd' = "start_worker") =>
       /\ Len(queue') = Len(listing')
       /\ \A i \in 1 .. Len(listing') :
            queue'[i] = [path |-> listing'[i], priority |-> i - 1, index |-> i - 1]
       /\ DOMAIN completed' = {}
       /\ total' = Len(listing')]_vars

\* the second initialize found a completion-map entry of the first session and
\* queued a new item
C12_Witness ==
  /\ nInit = 2
  /\ cmd = "start_worker"
  /\ replaced.done > 0
  /\ Len(queue) > 0

\* ------------------------------------------------------- producer claims
Fast == {i \in Done : calls[i].kind = "fast"}
Hq == {i \in Done : calls[i].kind = "hq"}
Returned(i, source) == calls[i].res.ok /\ calls[i].res.source = source

\* call j was made after call i had returned, and the file had the same
\* modification time for both
RoundTrip(i, j) ==
  /\ i \in calls[j].after
  /\ Returned(i, "dct_scaling")
  /\ calls[j].ticks = calls[i].ticks

\* C13: cache round-trip: when generate_thumbnail(P) has returned source =
\* dct_scaling, a later generate_thumbnail(P) with the modification time
\* unchanged returns source = cache with the same width and height.
C13_CacheRoundTrip ==
  \A i \in Fast : \A j \in Fast :
    RoundTrip(i, j) =>
      /\ Returned(j, "cache")
      /\ calls[j].res.w = calls[i].res.w
      /\ calls[j].res.h = calls[i].res.h

\* the round trip of C13 when every other call had returned before the second
\* call was made and no write of the cache file failed
C13_SequentialRoundTrip ==
  \A i \in Fast : \A j \in Fast :
    (/\ RoundTrip(i, j)
     /\ \A k \in (1 .. Len(calls)) \ {j} :
          k \in calls[j].after /\ calls[k].res.err # "write")
    => /\ Returned(j, "cache")
       /\ calls[j].res.w = calls[i].res.w
       /\ calls[j].res.h = calls[i].res.h

\* the calls that have read the modification time and computed the cache key
Looked ==
  {i \in 1 .. Len(calls) :
     /\ calls[i].pc # "lookup"
     /\ calls[i].res.source # "exif_embedded"
     /\ calls[i].res.err # "exif"}

\* C14: cache invalidation: once the modification time of P has changed, the
\* next call computes another cache key, so it does not read the entry written
\* under the earlier modification time and does not return source = cache
\* from it.
C14_MtimeChangeInvalidates ==
  \A j \in Done : Returned(j, "cache") => calls[j].under = calls[j].ticks

LongerSide(r) == Max(r.w, r.h)

\* C15: dimension bound: every result with source cache or dct_scaling for an
\* input that is not an SVG, and every WebP in the cache, has its longer side
\* at most 320; the JPEG-DCT path called with 320 x 320 returns a size whose
\* longer side is at most 320.
C15_DimensionBound ==
  /\ \A i \in Done :
       (calls[i].res.ok /\ calls[i].res.source \in {"cache", "dct_scaling"}
        /\ ~is_svg_file(file.path))
       => LongerSide(calls[i].res) <= 320
  /\ \A k \in DOMAIN cache : LongerSide(cache[k].data) <= 320
  /\ \A i \in Looked : calls[i].path = "dct" => LongerSide(calls[i]) <= 320

\* C16: a cache entry is never returned partially written: a call that finds
\* <K>.webp while another call is writing it does not return the incomplete
\* bytes as a result with source = cache.
C16_NoPartialEntryReturned ==
  \A i \in Done : Returned(i, "cache") => calls[i].res.data # NoBytes

\* neither call had returned when the other was made
Overlap(i, j) == i \notin calls[j].after /\ j \notin calls[i].after

\* no write of a cache file is in progress, and none has failed
NoWriter ==
  /\ \A k \in 1 .. Len(calls) : calls[k].pc \notin {"create", "write"}
  /\ \A k \in Done : calls[k].res.err # "write"

\* the bytes one generate_hq_thumbnail(P) or generate_thumbnail(P) call on its
\* own writes for a JPEG
SequentialBytes ==
  LET rgb == generate_dct_thumbnail(file, max_size)
  IN  encode_thumbnail_to_webp(rgb.w, rgb.h, quality)

ConcurrentPairs ==
  {p \in Fast \X Hq :
     /\ is_jpeg_file(file.path)
     /\ Overlap(p[1], p[2])
     /\ calls[p[1]].res.ok /\ calls[p[2]].res.ok
     /\ calls[p[1]].ticks = file.ticks /\ calls[p[2]].ticks = file.ticks}

\* C17: generate_thumbnail(P) and generate_hq_thumbnail(P) run concurrently for
\* the same JPEG with the modification time unchanged: no step of a call waits
\* for another call, and when both have returned and no write is in progress
\* or has failed, <K>.webp holds the bytes a single call would have written,
\* the same bytes that every call that wrote the file returned.
C17_ConcurrentSameBytes ==
  /\ \A i \in 1 .. Len(calls) : calls[i].pc # "done" => ENABLED CallStep(i)
  /\ \A p \in ConcurrentPairs :
       NoWriter =>
         /\ Key(calls[p[2]]) \in DOMAIN cache
         /\ cache[Key(calls[p[2]])].data = SequentialBytes
         /\ \A k \in {p[1], p[2]} :
              Returned(k, "dct_scaling") =>
                cache[Key(calls[p[2]])].data = calls[k].res.data

\* both calls missed the cache, both wrote the file and both have returned
C17_Witness ==
  /\ NoWriter
  /\ \E p \in ConcurrentPairs :
       Returned(p[1], "dct_scaling") /\ Returned(p[2], "dct_scaling")

\* C18: in generate_thumbnail a failed write of the cache file is not fatal:
\* the call does not return the write error (it returns the thumbnail with
\* source = dct_scaling).
C18_WriteFailureNonFatal ==
  \A i \in Fast : ~(~calls[i].res.ok /\ calls[i].res.err = "write")

\* C19: for a JPEG, a miss of the EXIF thumbnail (no APP1 segment, no thumbnail
\* offset or length, a bad marker, embedded bytes that are no decodable JPEG)
\* never makes generate_thumbnail return an error: the call goes on to the
\* cache lookup and the decode.
C19_ExifMissFallsThrough ==
  \A i \in Fast :
    (is_jpeg_file(file.path) /\ file.exif # "valid") => calls[i].res.err # "exif"

\* the decode path the extension stands for
ExpectedPath(ext) ==
  LET e == to_lowercase(ext)
  IN  IF e \in {"jpg", "jpeg"} THEN "dct"
      ELSE IF e = "svg" THEN "svg"
      ELSE IF e \in {"nef", "nrw", "cr2", "crw", "arw", "srf", "sr2", "dng",
                     "raf", "orf", "rw2", "pef"} THEN "raw"
      ELSE "generic"

DecodeFailed(i) == ~calls[i].res.ok /\ calls[i].res.err = "decode"

\* C20: the decode path generate_thumbnail takes is given by the lower-cased
\* extension alone (jpg/jpeg: JPEG-DCT, svg: SVG, the twelve RAW extensions:
\* RAW, anything else: generic), and when that path fails the call returns the
\* error in the same step, with no other decode tried and no cache file written.
C20_PathByExtension ==
  /\ [](\A i \in 1 .. Len(calls) :
          (calls[i].kind = "fast" /\ calls[i].path # "none")
          => calls[i].path = ExpectedPath(file.path.ext))
  /\ [][\A i \in 1 .. Len(calls) :
          (calls[i].kind = "fast" /\ calls[i].pc # "done"
           /\ calls'[i].pc = "done" /\ DecodeFailed(i)')
          => (calls[i].pc = "lookup" /\ cache' = cache)]_vars

\* a file named .JPG that is no JPEG: the JPEG decoder failed, the call
\* returned the error and there is no cache file
C20_Witness ==
  /\ file.path.ext = "JPG"
  /\ cache = NoCache
  /\ \E i \in Fast : DecodeFailed(i) /\ calls[i].path = "dct"

\* the results generate_thumbnail and generate_hq_thumbnail have returned, and
\* the entries of the completion map
Results ==
  {calls[i].res : i \in {j \in Done : calls[j].res.ok}}
    \cup {completed[p] : p \in DOMAIN completed}

\* C21: a result has source = cache exactly when its bytes were read from the
\* cache file <K>.webp; bytes of a fresh decode carry dct_scaling and the bytes
\* of the embedded EXIF thumbnail carry exif_embedded, for the results of
\* generate_thumbnail and generate_hq_thumbnail and for the entries of the
\* completion map.
C21_SourceTellsOrigin ==
  \A r \in Results :
    /\ r.source = "cache" <=> r.from = "cache_file"
    /\ r.from = "decode" => r.source = "dct_scaling"
    /\ r.from = "exif_segment" => r.source = "exif_embedded"
    /\ r.from \in {"cache_file", "decode", "exif_segment"}

\* the completion map holds a result read from the cache file, and an HQ call
\* has returned a fresh decode
C21_Witness ==
  /\ \E p \in DOMAIN completed : completed[p].source = "cache"
  /\ \E i \in Hq : Returned(i, "dct_scaling")

\* ------------------------------------------------------- HQ worker claims
Missing == {p \in 1 .. Len(passes) : passes[p].kind = "missing"}
Existing == {p \in 1 .. Len(passes) : passes[p].kind = "existing"}
Sent(p, type) == {k \in 1 .. Len(passes[p].sent) : passes[p].sent[k].type = type}

\* C22: after cancel() is called during a start_hq_thumbnail_worker pass, the
\* pass emits thumbnail-hq-cancelled within two idle-poll intervals, for any
\* number of paths and whatever its tasks are doing.
C22_CancelledWithinTwoPolls ==
  \A p \in Missing :
    (passes[p].called /\ now > passes[p].at + 2)
    => \E k \in Sent(p, "cancelled") : passes[p].sent[k].at <= passes[p].at + 2

Finished == {p \in 1 .. Len(passes) : passes[p].pc = "done"}
LastSent(p) == passes[p].sent[Len(passes[p].sent)].type

\* C23: a start_hq_thumbnail_worker pass ends with thumbnail-hq-cancelled if
\* cancel() was called while the pass was in progress and with
\* thumbnail-hq-all-completed otherwise; a pass during which cancel() was not
\* called never emits thumbnail-hq-cancelled.
C23_EndsAsCancelled ==
  \A p \in Missing :
    /\ p \in Finished =>
         LastSent(p) = IF passes[p].called THEN "cancelled" ELSE "all_completed"
    /\ ~passes[p].called => Sent(p, "cancelled") = {}

\* the passes of C23 when no start_hq_thumbnail_worker call was made while
\* an earlier pass was in progress
C23_OnePassAtATime ==
  (\A p \in Missing : \A q \in Missing : q > p => p \in passes[q].after)
  => C23_EndsAsCancelled

Succeeded(ps) == {i \in 1 .. Len(ps.paths) : ps.task[i].out \in {"cache", "dct_scaling"}}

\* pass q is a start_hq_thumbnail_worker pass made after an earlier one was
\* cancelled
Restarted(q) ==
  /\ q \in Missing
  /\ \E p \in Missing : p < q /\ passes[p].called

\* cancel is not called while pass q runs, and no generate_hq_thumbnail of
\* pass q fails
Undisturbed(q) ==
  q \in Missing =>
    /\ ~passes[q].called
    /\ \A i \in 1 .. Len(passes[q].paths) : passes[q].task[i].out # "err"

\* pass q has emitted thumbnail-hq-completed for every path and, after them,
\* thumbnail-hq-all-completed, and never thumbnail-hq-cancelled
AllCompleted(q) ==
  /\ q \in Finished
  /\ Succeeded(passes[q]) = 1 .. Len(passes[q].paths)
  /\ passes[q].count = Len(passes[q].paths)
  /\ Len(passes[q].sent) = 1
  /\ passes[q].sent[1] = HqEvent("all_completed", now, 1 .. Len(passes[q].paths))

GateOpen == should_generate_hq(IDLE_THRESHOLD_MS)

\* a start_hq_thumbnail_worker call leaves the flag reset
ResetAtStart ==
  [][(Len(passes') > Len(passes) /\ passes'[Len(passes')].kind = "missing")
     => ~hq_cancelled']_vars

\* C24 as it is written: a start_hq_thumbnail_worker pass made after an
\* earlier pass was cancelled resets the flag and, when cancel() is not called
\* again, the idle gate eventually opens and every generate_hq_thumbnail
\* succeeds, emits thumbnail-hq-completed once per path and then
\* thumbnail-hq-all-completed.
C24_RestartCompletes ==
  /\ ResetAtStart
  /\ \A q \in 2 .. MaxHqOps :
       ((Restarted(q) ~> GateOpen) /\ []Undisturbed(q))
       => (Restarted(q) ~> AllCompleted(q))

\* C24, amended: the same, when the idle gate opens and then stays open.
C24_RestartCompletesOnceOpen ==
  /\ ResetAtStart
  /\ \A q \in 2 .. MaxHqOps :
       (<>[]GateOpen /\ []Undisturbed(q)) => (Restarted(q) ~> AllCompleted(q))

\* a pass of two paths made after a cancelled pass has completed both
C24_Witness ==
  \E q \in Missing :
    Restarted(q) /\ AllCompleted(q) /\ Len(passes[q].paths) = 2

\* the tasks of pass p that are in the idle-gate wait or in generate_hq_thumbnail
Inside(p) ==
  {i \in 1 .. Len(passes[p].paths) : passes[p].task[i].pc \in {"sleep", "write"}}

\* the tasks of pass p that have been spawned and have not ended
Live(p) ==
  {i \in 1 .. Len(passes[p].paths) : passes[p].task[i].pc \notin {"none", "done"}}

\* C25: within one HQ pass at most 3 tasks are in generate_hq_thumbnail or in
\* the idle-gate wait at any time; every other task of the pass waits for a
\* permit of the pass's semaphore, and gets none while 3 tasks are inside.
C25_AtMostThreeInside ==
  \A p \in 1 .. Len(passes) :
    /\ Cardinality(Inside(p)) <= 3
    /\ \A i \in Live(p) \ Inside(p) :
         /\ passes[p].task[i].pc = "wait"
         /\ Cardinality(Inside(p)) = 3 => ~ENABLED HqAcquire(p, i)

\* three tasks of a pass are inside and a fourth waits for a permit
C25_Witness ==
  \E p \in 1 .. Len(passes) :
    Cardinality(Inside(p)) = 3 /\ Live(p) \ Inside(p) # {}

\* pass q is load_existing_hq_thumbnails(S) run again after pass p, the first
\* load_existing_hq_thumbnails(S), has ended, both have ended, and every other
\* pass ended before the first run or was started after the second
RunTwice(p, q) ==
  /\ p \in Existing /\ q \in Existing /\ q \in Finished
  /\ p \in passes[q].after
  /\ passes[p].paths = passes[q].paths
  /\ \A r \in (1 .. Len(passes)) \ {p, q} :
       passes[r].paths = <<>> \/ r \in passes[p].after \/ q \in passes[r].after

\* C26: HQ idempotence: load_existing_hq_thumbnails(S) run twice over the same
\* S with the files unchanged gives the same completion count in both runs
\* and leaves every cache file as it was after the first run.
C26_HqIdempotent ==
  \A p \in Existing : \A q \in Existing :
    RunTwice(p, q) =>
      /\ passes[q].count = passes[p].count
      /\ passes[q].left = passes[p].left

\* a generate_hq_thumbnail of pass p failed in fs::write
WriteFailed(p) ==
  \E i \in 1 .. Len(passes[p].paths) :
    /\ passes[p].task[i].out = "err"
    /\ generate_dct_thumbnail(Folder[passes[p].paths[i]], max_size).ok

\* the two runs of C26 when no write of a cache file failed in the first
C26_IdempotentWithoutWriteFailure ==
  \A p \in Existing : \A q \in Existing :
    (RunTwice(p, q) /\ ~WriteFailed(p)) =>
      /\ passes[q].count = passes[p].count
      /\ passes[q].left = passes[p].left

\* C27: load_existing_hq_thumbnails emits thumbnail-hq-existing-loaded exactly
\* once, after every per-path task of the pass has ended (so after all of its
\* thumbnail-hq-completed events), and it does so without a look at the idle
\* gate and whatever the cancellation flag is.
C27_ExistingLoadedOnce ==
  /\ [](\A p \in Existing :
         /\ passes[p].sent \in {<<>>, <<HqEvent("existing_loaded", now,
                                                 1 .. Len(passes[p].paths))>>}
         /\ passes[p].sent # <<>> =>
              \A i \in 1 .. Len(passes[p].paths) : passes[p].task[i].pc = "done"
         /\ \A i \in 1 .. Len(passes[p].paths) :
              /\ passes[p].task[i].pc # "sleep"
              /\ passes[p].task[i].out # "cancelled"
              /\ ~passes[p].task[i].saw)
  /\ \A p \in 1 .. MaxHqOps :
       (p \in Existing) ~> (p \in Existing /\ passes[p].sent # <<>>)
  /\ [][\A p \in Existing : passes[p].sent # <<>> => passes'[p] = passes[p]]_vars

\* a pass over three paths has emitted thumbnail-hq-existing-loaded with the
\* flag set and the idle gate closed
C27_Witness ==
  \E p \in Existing :
    /\ Sent(p, "existing_loaded") # {}
    /\ Len(passes[p].paths) = 3
    /\ passes[p].count = 2
    /\ passes[p].called
    /\ hq_cancelled /\ ~GateOpen

\* the application window is not the foreground window, or the system has
\* had no input for threshold_ms
BackgroundOrIdle(threshold_ms) ==
  desktop.foreground # "app" \/ desktop.idle >= threshold_ms

\* the tasks of start_hq_thumbnail_worker passes that have called
\* generate_hq_thumbnail
Produced ==
  {t \in Missing \X (1 .. MaxHqOps) :
     /\ t[2] <= Len(passes[t[1]].paths)
     /\ \/ passes[t[1]].task[t[2]].pc = "write"
        \/ passes[t[1]].task[t[2]].out \in {"cache", "dct_scaling", "err"}}

\* a task of start_hq_thumbnail_worker calls generate_hq_thumbnail only after
\* it has seen should_generate_hq return true
GateBeforeProduce == \A t \in Produced : passes[t[1]].task[t[2]].saw

\* task i of pass p calls should_generate_hq in this step: it has got its
\* permit, or its sleep is over and the flag is not set
LooksAtGate(p, i) ==
  /\ passes'[p].task[i] # passes[p].task[i]
  /\ \/ passes[p].task[i].pc = "wait"
     \/ passes[p].task[i].pc = "sleep" /\ ~hq_cancelled

\* C28: should_generate_hq(threshold) returns true exactly when the
\* application window is not the foreground window or the system idle time is
\* at least the threshold, and a task of start_hq_thumbnail_worker does not
\* call generate_hq_thumbnail before it has seen the gate return true.
C28_GateExact ==
  /\ [][\A p \in Missing : \A i \in 1 .. Len(passes[p].paths) :
          LooksAtGate(p, i) =>
            (passes'[p].task[i].pc = "sleep"
               <=> ~BackgroundOrIdle(IDLE_THRESHOLD_MS))]_vars
  /\ []GateBeforeProduce

\* task i of pass p calls generate_hq_thumbnail in this step
StartsProduce(p, i) ==
  /\ passes[p].task[i].pc \in {"wait", "sleep"}
  /\ passes'[p].task[i].pc \in {"write", "done"}
  /\ passes'[p].task[i].out # "cancelled"

\* pass p, for which cancel() has been called, goes on in this step
GoesOn(p) ==
  \/ \E i \in 1 .. Len(passes[p].paths) : StartsProduce(p, i)
  \/ \E k \in 1 .. Len(passes'[p].sent) : passes'[p].sent[k].type = "all_completed"

\* C36: once cancel() has been called during a start_hq_thumbnail_worker
\* pass, the pass starts no further generate_hq_thumbnail call and never emits
\* thumbnail-hq-all-completed, also when a new pass resets the flag before
\* the tasks of the old pass have seen it.
C36_CancelledPassStops ==
  [][\A p \in Missing : passes[p].called => ~GoesOn(p)]_vars

\* the same for a pass after which no other pass has been started
C36_StopsWithoutRestart ==
  [][\A p \in Missing :
       (passes[p].called /\ \A q \in Missing : q <= p) => ~GoesOn(p)]_vars

\* the events of a pass that end it
Terminal(p) == Sent(p, "all_completed") \cup Sent(p, "cancelled")

\* C37: each start_hq_thumbnail_worker pass emits exactly one terminal event,
\* either one thumbnail-hq-all-completed or one thumbnail-hq-cancelled, never
\* both and never the same twice, wherever in the pass the cancellation is
\* seen.
C37_OneTerminalEvent ==
  \A p \in Missing :
    /\ Cardinality(Terminal(p)) <= 1
    /\ p \in Finished => Cardinality(Terminal(p)) = 1

\* the same for the passes whose spawn loop has not seen the flag set
C37_OneWhenLoopRunsThrough ==
  \A p \in Missing :
    (passes[p].pc # "spawn" /\ passes[p].next > Len(passes[p].paths)) =>
      /\ Cardinality(Terminal(p)) <= 1
      /\ p \in Finished => Cardinality(Terminal(p)) = 1

\* ------------------------------------------------- more queue claims
\* the queued items without their priority, each as often as it is queued
QueuedItems(q) ==
  [it \in {<<q[i].path, q[i].index>> : i \in 1 .. Len(q)} |->
     Cardinality({i \in 1 .. Len(q) : <<q[i].path, q[i].index>> = it})]

\* C38: update_priorities changes only the order and the priority of the
\* queued items: the items that are queued, by path and index, are the same
\* before and after, and the completion map, total, the pause flag and the
\* processing flag are as they were.
C38_UpdateKeepsItems ==
  [][(\E visible_indices \in VisibleSets : UpdatePriorities(visible_indices)) =>
       /\ QueuedItems(queue') = QueuedItems(queue)
       /\ completed' = completed
       /\ total' = total
       /\ paused' = paused
       /\ is_processing' = is_processing]_vars

\* update_priorities has put an item of a higher index in front of one of a
\* lower index
C38_Witness ==
  /\ updV # NoUpdate
  /\ \E i, j \in 1 .. Len(queue) : i < j /\ queue[i].index > queue[j].index

\* C35: after initialize(paths) the completion map holds only paths of the
\* latest initialize call, and every thumbnail-progress event has
\* completed <= total, also when decode tasks that were started before that
\* call finish after it.
C35_MapOfLatestCall ==
  /\ DOMAIN completed \subseteq Listed
  /\ \A i \in 1 .. Len(events) :
       events[i].type = "progress" => events[i].completed <= events[i].total

\* the items initialize can queue, with the call that queued them
Items ==
  {[path |-> p, index |-> i, sess |-> c] :
     p \in Paths, i \in 0 .. MaxLen - 1, c \in 1 .. MaxCalls}

\* the item is in the queue, and start_worker has returned
Enqueued(it) ==
  /\ cmd = "none"
  /\ it.sess = nInit
  /\ \E i \in 1 .. Len(queue) : Item(queue[i], nInit) = it

\* the item has been popped and a decode task runs for it
BeingDecoded(it) == \E t \in tasks : t.pc = "decode" /\ Item(t, t.sess) = it

\* C34: every work item enqueued by initialize(paths) followed by
\* start_worker() is eventually popped and decoded, if the queue is not paused
\* for ever and the scheduling is fair, also when the two calls are made while
\* an earlier driver has seen the queue empty and still awaits its tasks with
\* the processing flag set.  (A later start_thumbnail_generation, which
\* clears the queue, ends the obligation.)
C34_EnqueuedIsDecoded ==
  \A it \in Items : Enqueued(it) ~> (BeingDecoded(it) \/ nInit > it.sess)

\* -------------------------------------------------------- lock claims
\* pr is queued for a lock that another task holds
Blocked(pr) ==
  /\ locks.pc[pr].st = "wait"
  /\ \E h \in locks.held[LockOf(locks.pc[pr].at)[1]] : h[1] # pr

\* pr is at an await that is no lock: the sleep, the permit, the handles, the
\* decode
Parked(pr) ==
  locks.pc[pr].st = "run"
  /\ locks.pc[pr].at \in {"drv_sleep", "drv_permit", "drv_join", "task_decode"}

\* C33: no operation of the queue holds the queue mutex across a suspension
\* point: the driver gives it back before it acquires a permit and before a
\* decode runs, and initialize and update_priorities await no other lock and
\* no task while they hold it.
C33_QueueMutexNotHeldAcrossAwait ==
  \A pr \in Procs :
    "queue" \in Holds(locks, pr) => ~Blocked(pr) /\ ~Parked(pr)

\* the driver and update_priorities hold the queue mutex only in the
\* statement that took it
C33_DriverAndUpdateRelease ==
  /\ "queue" \in Holds(locks, Driver) => locks.pc[Driver] = At("drv_queue", "held")
  /\ ("queue" \in Holds(locks, Cmd) /\ locks.pc[Cmd].at \notin
        {"init_queue", "init_total", "init_completed"})
       => locks.pc[Cmd] = At("upd_queue", "held")

\* C39: the queue is free of deadlock: under every interleaving of
\* initialize, update_priorities, pause, resume, get_all_completed, the driver
\* and the decode tasks, every request for the queue mutex or for the total,
\* completion-map, pause or processing guard is granted in the end.
C39_EveryRequestGranted ==
  \A pr \in Procs : (locks.pc[pr].st = "wait") ~> (locks.pc[pr].st = "held")

\* the driver is queued for the queue mutex, which initialize holds while it
\* is queued for the completion map, which a decode task holds
C39_Witness ==
  /\ locks.pc[Driver] = At("drv_queue", "wait")
  /\ locks.pc[Cmd] = At("init_completed", "wait")
  /\ \E t \in DecodeTasks : <<t, "w">> \in locks.held["completed"]

\* ------------------------------------------------- folder watcher claims
\* the folder-change events emitted so far, as the frontend receives them
Emitted == [i \in 1 .. Len(changes) |-> [type |-> changes[i].type, path |-> changes[i].path]]

\* the events the pairs of a batch call for, in their order
RECURSIVE ExpectedChanges(_)
ExpectedChanges(pairs) ==
  IF pairs = <<>> THEN <<>>
  ELSE LET pair == Head(pairs)
           image == pair.path.ext # "" /\ to_lowercase(pair.path.ext) \in IMAGE_EXTENSIONS
           one == CASE pair.kind = "Create" -> <<[type |-> "file_added", path |-> pair.path]>>
                    [] pair.kind = "Remove" -> <<[type |-> "file_removed", path |-> pair.path]>>
                    [] pair.kind = "Modify" -> <<[type |-> "file_modified", path |-> pair.path]>>
                    [] OTHER -> <<>>
       IN  (IF image THEN one ELSE <<>>) \o ExpectedChanges(Tail(pairs))

\* C29: the callback emits a folder-change event only for a path whose
\* lower-cased extension is in the image set, and for such a path exactly one
\* event: file_added for a Create change, file_removed for a Remove change,
\* file_modified for a Modify change, and none for a change of another kind.
C29_OneEventPerImageChange == Emitted = ExpectedChanges(watcher.handled)

\* a change of an image with a cased extension has been announced, and the
\* callback has passed over another path
C29_Witness ==
  /\ \E i \in 1 .. Len(changes) : changes[i].path.ext = "JPG" /\ changes[i].type = "file_added"
  /\ Len(watcher.handled) > Len(changes)

\* the debouncers whose directory the backend watches
Watching == {k \in 1 .. Len(watcher.threads) : watcher.threads[k].watching}

\* at most one directory is watched at any time
C30_OneWatching == Cardinality(Watching) <= 1

\* C30: at most one directory watcher is active at any time, and once a
\* successful watch_folder for another directory has returned, no
\* folder-change event comes from the directory watched before.
C30_NoEventFromPrevious ==
  /\ Cardinality(Watching) <= 1
  /\ \A i \in 1 .. Len(changes) : ~changes[i].late

\* whether a watcher is active, and the directory it watches
ActiveDir ==
  IF watcher.debouncer = 0 THEN "" ELSE watcher.threads[watcher.debouncer].dir

\* C40: after any sequence of watch_folder and stop_watching calls, failing
\* ones included, current_path is the directory of the active watcher and is
\* None exactly when no watcher is active, and a call of watch_folder that
\* fails leaves the active watcher and current_path as they were.
C40_PathOfActiveWatcher ==
  /\ [](watcher.current_path = ActiveDir)
  /\ [][watcher'.last = "Err" /\ watcher' # watcher =>
          /\ watcher'.debouncer = watcher.debouncer
          /\ watcher'.current_path = watcher.current_path]_vars

\* ------------------------------------------------------ metadata claims
\* C31: the orientation stored with a thumbnail result is read from the
\* PRIMARY IFD and is one of 1, 3, 6 and 8: the values 1, 3, 6 and 8 of the
\* tag are kept, and every other value, and a missing tag, is stored as 1.
C31_OrientationNormalised ==
  (meta.pc = "done" /\ meta.some) =>
    /\ meta.orientation \in {1, 3, 6, 8}
    /\ meta.orientation = IF meta.tag = "short" /\ meta.value \in {1, 3, 6, 8}
                          THEN meta.value ELSE 1

\* the orientation of the THUMBNAIL IFD is never the one that is stored, and
\* a missing tag or a tag of another type is stored as 1
C31_PrimaryOrDefault ==
  (meta.pc = "done" /\ meta.some) =>
    meta.orientation = IF meta.tag = "short" THEN meta.value % 256 ELSE 1

\* -------------------------------------------------------- rating claims
\* the file as it is on the disk
OnDisk(f) == <<f.exists, f.xmp, f.taken, f.mtime>>

\* a call of write_rating with a rating outside 0..5 has just returned
Rejected(f) == f.call = "write_rating" /\ (f.rating < 0 \/ f.rating > 5)

\* C32: write_rating rejects every rating outside 0..5 with an error before
\* it opens, reads or modifies the file, so the contents and the modification
\* time of the file are as they were before the call.
C32_InvalidRatingRejected ==
  [][(photo' # photo /\ Rejected(photo')) =>
       /\ photo'.result = "Err"
       /\ ~photo'.opened
       /\ OnDisk(photo') = OnDisk(photo)]_vars

\* a rating of 6 has been rejected for a file that a valid rating would have
\* changed
C32_Witness ==
  /\ Rejected(photo) /\ photo.rating = 6 /\ photo.result = "Err"
  /\ photo.exists /\ photo.taken = "good"

====
